---- MODULE Spec2Model ----
(***************************************************************************)
(* Ready/valid elastic adder (adder_rv_simple) and the Verilator C++       *)
(* testbench tb_main.cpp that drives it.                                   *)
(*                                                                         *)
(* Two systems are described over one set of variables:                    *)
(*   SpecDut : the adder alone, driven by arbitrary in_valid / payload /   *)
(*             out_ready values, one drive step and one rising edge per    *)
(*             clock cycle, with logs of accepted and transferred sums;    *)
(*   Spec    : main() of tb_main.cpp, statement block by statement block,  *)
(*             driving the same adder.                                     *)
(*                                                                         *)
(* The source fixes W = 32.  TLC's integers are 32 bit wide, so the model  *)
(* uses narrower words; all arithmetic is done modulo 2^W as in the RTL.   *)
(***************************************************************************)
EXTENDS Integers, Naturals, Sequences, FiniteSets, TLC

VARIABLES
    \* ---- Vadder_rv_simple: ports written by the testbench
    clk, rst_n, in_valid, in_a, in_b, out_ready,
    \* ---- adder_rv_simple: registers
    out_buf_valid, out_buf_data, spill_buf_valid, spill_buf_data,
    \* ---- main() of tb_main.cpp
    pc,          \* position in main()
    i,           \* loop index of the reset / directed / drain loops
    t,           \* loop index of the randomized loop
    expq,        \* std::queue<uint64_t> expq
    errors,      \* int errors
    printed,     \* diagnostic lines written to stderr by the scoreboard checks
    rng,         \* std::mt19937_64 rng: its seed and the number of values drawn
    pre_valid, pre_ready, pre_sum,   \* pre-edge snapshot (randomized loop)
    a, b,        \* operands of the current cycle (v.a, v.b / a, b)
    got,         \* value compared by the last scoreboard check
    ret,         \* exit status of main(), -1 while running
    \* ---- observation variables (not program state)
    expq_new,    \* per expq entry: pushed during the current cycle
    did_accept,  \* in_valid && in_ready held at the last rising edge
    sb_log,      \* scoreboard operations of the current cycle, in order
    edge_valid, edge_ready, edge_sum, \* out_valid/out_ready/out_sum just before the last rising edge
    fired,       \* the last scoreboard check decided "completion"
    acc_log,     \* SpecDut: expected sums of accepted inputs, in order
    sent_log,    \* SpecDut: out_sum of output transfers, in order
    quiet,       \* SpecDut: in_valid held low and out_ready held high from now on
    held,        \* SpecDut: edges at which the offer now driven has been stalled
    held_done,   \* SpecDut: the last edge accepted an offer that had been stalled
    all_ready,   \* SpecDut: out_ready was high in every cycle so far
    \* ---- file-based hosts: main() of cosim_tb.cpp and of the naive C host
    h_prog,      \* which host runs: "cosim" or "naive"
    h_ndebug,    \* naive host: built with NDEBUG (assert compiled out)
    h_in,        \* stimulus vector in
    h_exp,       \* expected value per position (exp / gld)
    h_wrote,     \* the input file was written
    h_rcs,       \* return codes of the external commands run so far
    h_file,      \* the output file left by the simulator
    h_got,       \* values read from the output file (got / out)
    h_i,         \* index of the compare loop
    h_mism,      \* size_t mism
    h_diag,      \* indices named by the MISMATCH lines printed so far
    h_cmp,       \* number of positions compared so far
    h_summary,   \* summary line printed: "none", "PASS" or "FAIL"
    h_ret,       \* exit status of the host, -1 while running
    h_read,      \* the output file was opened for reading
    ref,         \* SpecRef: sums computed by the reference models
    \* ---- adder_cosim_tb / rv_cosim_tb (SystemVerilog testbench)
    sv_fin,      \* lines of the input file not yet read
    sv_fout,     \* records written to the output file
    n_sent,      \* int n_sent
    n_written,   \* int n_written
    sv_a, sv_b,  \* arguments a, b of the running send_item call
    sv_rep,      \* rising edges counted by repeat (4) @(posedge clk)
    sv_tb,       \* which testbench runs: "adder_cosim_tb" or "rv_cosim_tb"
    sv_file,     \* the input file as it was at the start (never changes)
    \* ---- tb_top with the naive dut (cosim_tb.cpp lines 328-494, dut.v)
    in_data,       \* reg signed [DATAW-1:0] in_data
    dut_out_valid, \* dut: output reg out_valid
    out_data,      \* dut: output reg signed [2*DATAW-1:0] out_data
    dr_st,         \* dr_state_e dr_st: "DR_IDLE" or "DR_HAVE"
    sent_cnt,      \* integer sent_cnt
    recv_cnt,      \* integer recv_cnt
    fin,           \* tokens of the input file not yet read
    fin_eof,       \* $feof(fin)
    fout,          \* records written to the output file
    top_file,      \* the input file as it was at the start (never changes)
    top_rep,       \* rising edges counted by repeat (5) @(posedge clk)
    top_ticks,     \* rising edges since start_time
    top_end        \* how the simulation ended: "none", "DONE", "TIMEOUT", "ERROR"

vars == << clk, rst_n, in_valid, in_a, in_b, out_ready,
           out_buf_valid, out_buf_data, spill_buf_valid, spill_buf_data,
           pc, i, t, expq, errors, printed, rng, pre_valid, pre_ready, pre_sum, a, b,
           got, ret, expq_new, did_accept, sb_log,
           edge_valid, edge_ready, edge_sum, fired,
           acc_log, sent_log, quiet, held, held_done, all_ready,
           h_prog, h_ndebug, h_in, h_exp, h_wrote, h_rcs, h_file, h_got,
           h_i, h_mism, h_diag, h_cmp, h_summary, h_ret, h_read, ref,
           sv_fin, sv_fout, n_sent, n_written, sv_a, sv_b,
           sv_rep, sv_tb, sv_file,
           in_data, dut_out_valid, out_data, dr_st, sent_cnt, recv_cnt,
           fin, fin_eof, fout, top_file, top_rep, top_ticks, top_end >>

portVars == << clk, rst_n, in_valid, in_a, in_b, out_ready >>
regVars  == << out_buf_valid, out_buf_data, spill_buf_valid, spill_buf_data >>
tbVars   == << i, t, expq, errors, printed, rng, pre_valid, pre_ready, pre_sum, a, b,
               got, ret, expq_new, did_accept, sb_log,
               edge_valid, edge_ready, edge_sum, fired >>
logVars  == << acc_log, sent_log, quiet, held, held_done, all_ready >>
hostVars == << h_prog, h_ndebug, h_in, h_exp, h_wrote, h_rcs, h_file, h_got,
               h_i, h_mism, h_diag, h_cmp, h_summary, h_ret, h_read, ref >>
svVars   == << sv_fin, sv_fout, n_sent, n_written, sv_a, sv_b,
           sv_rep, sv_tb, sv_file >>
topVars  == << in_data, dut_out_valid, out_data, dr_st, sent_cnt, recv_cnt,
               fin, fin_eof, fout, top_file, top_rep, top_ticks, top_end >>

----------------------------------------------------------------------------
(* Bounds *)

W          == 3     \* word width of the model (parameter W of the adder)
MaxVal     == 1     \* random operands are drawn from 0..MaxVal and mask
RndCycles  == 5     \* iterations of the randomized loop that are explored
MaxAccept  == 3     \* SpecDut: inputs accepted before the producer goes idle
DutMaxVal  == 0     \* SpecDut: operands are drawn from 0..DutMaxVal and mask
MaxHeld    == 2     \* SpecDut: stalled edges counted per offer
HostN      == 11    \* SpecHost: vectors per run (COSIM_N, N), above DiagCap
SbCycles   == 3     \* SpecSb: iterations of the randomized loop
SbMaxVal   == 0     \* SpecSb: operands are drawn from 0..SbMaxVal
DiagCycles == 11    \* SpecDiag: iterations of the randomized loop, above DiagCap
SvMaxLines == 3     \* SpecTb: lines of the input file
TopMaxLines == 3    \* SpecTop: tokens of the input file
TopTimeoutEdges == 14  \* SpecTop: rising edges that stand for timeout_ns

----------------------------------------------------------------------------
(* Fixed-width arithmetic *)

RECURSIVE Pow2(_)
Pow2(n) == IF n = 0 THEN 1 ELSE 2 * Pow2(n - 1)

\* bitwise AND of two naturals, over n bits
RECURSIVE BitAnd(_, _, _)
BitAnd(x, y, n) ==
    IF n = 0 THEN 0
    ELSE (IF x % 2 = 1 /\ y % 2 = 1 THEN 1 ELSE 0)
         + 2 * BitAnd(x \div 2, y \div 2, n - 1)

\* const uint64_t mask = (W == 64) ? ~0ull : ((1ull << W) - 1);
mask == Pow2(W) - 1

\* (a + b) & mask, evaluated in uint64_t (W + 1 bits hold a + b)
ExpectedSum(x, y) == BitAnd(x + y, mask, W + 1)

\* mutation: the carry out of bit W-1 is kept
AdderSumNoWrap(x, y) == x + y

\* in_a + in_b assigned to a logic [W-1:0] register: truncation to W bits
AdderSum(x, y) == (x + y) % Pow2(W)

Vals == (0 .. MaxVal) \cup {mask}

DutVals == (0 .. DutMaxVal) \cup {mask}

----------------------------------------------------------------------------
(* adder_rv_simple *)

\* assign out_valid = out_buf_valid;  assign out_sum = out_buf_data;
out_valid == out_buf_valid
out_sum   == out_buf_data

\* wire out_buf_ready = !out_buf_valid || out_ready;
out_buf_ready == ~out_buf_valid \/ out_ready

\* mutation: in_ready passes out_ready through combinationally
InReadyFromOutReady == ~spill_buf_valid \/ out_ready

\* assign in_ready = !spill_buf_valid;
in_ready == ~spill_buf_valid

\* mutation: Case 1 has no branch for the spill buffer, a released output
\* buffer is not refilled from it
RegsSpillStuck ==
    IF ~rst_n
    THEN [ov |-> FALSE, od |-> 0, sv |-> FALSE, sd |-> 0]
    ELSE [ov |-> IF out_buf_ready
                 THEN (IF in_valid /\ ~spill_buf_valid THEN TRUE
                       ELSE IF out_ready THEN FALSE ELSE out_buf_valid)
                 ELSE out_buf_valid,
          od |-> IF out_buf_ready /\ in_valid /\ ~spill_buf_valid
                 THEN AdderSum(in_a, in_b)
                 ELSE out_buf_data,
          sv |-> IF in_valid /\ ~out_buf_ready /\ ~spill_buf_valid THEN TRUE
                 ELSE spill_buf_valid,
          sd |-> IF in_valid /\ ~out_buf_ready /\ ~spill_buf_valid
                 THEN AdderSum(in_a, in_b)
                 ELSE spill_buf_data]

\* mutation: Case 2 misses the !out_buf_ready term, an input is stashed in
\* the spill buffer whenever that is free
RegsSpillEager ==
    IF ~rst_n
    THEN [ov |-> FALSE, od |-> 0, sv |-> FALSE, sd |-> 0]
    ELSE [ov |-> IF out_buf_ready
                 THEN (IF spill_buf_valid THEN TRUE
                       ELSE IF in_valid THEN TRUE
                       ELSE IF out_ready THEN FALSE ELSE out_buf_valid)
                 ELSE out_buf_valid,
          od |-> IF out_buf_ready
                 THEN (IF spill_buf_valid THEN spill_buf_data
                       ELSE IF in_valid THEN AdderSum(in_a, in_b)
                       ELSE out_buf_data)
                 ELSE out_buf_data,
          sv |-> IF out_buf_ready /\ spill_buf_valid THEN FALSE
                 ELSE IF in_valid /\ ~spill_buf_valid THEN TRUE
                 ELSE spill_buf_valid,
          sd |-> IF in_valid /\ ~spill_buf_valid
                 THEN AdderSum(in_a, in_b)
                 ELSE spill_buf_data]

\* mutation: the refill priority is swapped, a fresh input wins over the
\* spill buffer
RegsBadRefill ==
    IF ~rst_n
    THEN [ov |-> FALSE, od |-> 0, sv |-> FALSE, sd |-> 0]
    ELSE [ov |-> IF out_buf_ready
                 THEN (IF in_valid THEN TRUE
                       ELSE IF spill_buf_valid THEN TRUE
                       ELSE IF out_ready THEN FALSE ELSE out_buf_valid)
                 ELSE out_buf_valid,
          od |-> IF out_buf_ready
                 THEN (IF in_valid THEN AdderSum(in_a, in_b)
                       ELSE IF spill_buf_valid THEN spill_buf_data
                       ELSE out_buf_data)
                 ELSE out_buf_data,
          sv |-> IF out_buf_ready /\ spill_buf_valid /\ ~in_valid THEN FALSE
                 ELSE IF in_valid /\ ~out_buf_ready /\ ~spill_buf_valid THEN TRUE
                 ELSE spill_buf_valid,
          sd |-> IF in_valid /\ ~out_buf_ready /\ ~spill_buf_valid
                 THEN AdderSum(in_a, in_b)
                 ELSE spill_buf_data]

\* mutation: draining the spill buffer frees it without loading the
\* output buffer
RegsDropSpill ==
    IF ~rst_n
    THEN [ov |-> FALSE, od |-> 0, sv |-> FALSE, sd |-> 0]
    ELSE [ov |-> IF out_buf_ready
                 THEN (IF spill_buf_valid THEN FALSE
                       ELSE IF in_valid THEN TRUE
                       ELSE IF out_ready THEN FALSE ELSE out_buf_valid)
                 ELSE out_buf_valid,
          od |-> IF out_buf_ready
                 THEN (IF spill_buf_valid THEN out_buf_data
                       ELSE IF in_valid THEN AdderSum(in_a, in_b)
                       ELSE out_buf_data)
                 ELSE out_buf_data,
          sv |-> IF out_buf_ready /\ spill_buf_valid THEN FALSE
                 ELSE IF in_valid /\ ~out_buf_ready /\ ~spill_buf_valid THEN TRUE
                 ELSE spill_buf_valid,
          sd |-> IF in_valid /\ ~out_buf_ready /\ ~spill_buf_valid
                 THEN AdderSum(in_a, in_b)
                 ELSE spill_buf_data]

\* mutation: the output buffer is not released when the consumer takes the
\* word and nothing refills it
RegsNoRelease ==
    IF ~rst_n
    THEN [ov |-> FALSE, od |-> 0, sv |-> FALSE, sd |-> 0]
    ELSE [ov |-> IF out_buf_ready
                 THEN (IF spill_buf_valid THEN TRUE
                       ELSE IF in_valid THEN TRUE
                       ELSE out_buf_valid)
                 ELSE out_buf_valid,
          od |-> IF out_buf_ready
                 THEN (IF spill_buf_valid THEN spill_buf_data
                       ELSE IF in_valid THEN AdderSum(in_a, in_b)
                       ELSE out_buf_data)
                 ELSE out_buf_data,
          sv |-> IF out_buf_ready /\ spill_buf_valid THEN FALSE
                 ELSE IF in_valid /\ ~out_buf_ready /\ ~spill_buf_valid THEN TRUE
                 ELSE spill_buf_valid,
          sd |-> IF in_valid /\ ~out_buf_ready /\ ~spill_buf_valid
                 THEN AdderSum(in_a, in_b)
                 ELSE spill_buf_data]

\* mutation: Case 2 misses the !spill_buf_valid term, a stalled input is
\* written over the spilled word
RegsSpillOverwrite ==
    IF ~rst_n
    THEN [ov |-> FALSE, od |-> 0, sv |-> FALSE, sd |-> 0]
    ELSE [ov |-> IF out_buf_ready
                 THEN (IF spill_buf_valid THEN TRUE
                       ELSE IF in_valid THEN TRUE
                       ELSE IF out_ready THEN FALSE ELSE out_buf_valid)
                 ELSE out_buf_valid,
          od |-> IF out_buf_ready
                 THEN (IF spill_buf_valid THEN spill_buf_data
                       ELSE IF in_valid THEN AdderSum(in_a, in_b)
                       ELSE out_buf_data)
                 ELSE out_buf_data,
          sv |-> IF in_valid /\ ~out_buf_ready THEN TRUE
                 ELSE IF out_buf_ready /\ spill_buf_valid THEN FALSE
                 ELSE spill_buf_valid,
          sd |-> IF in_valid /\ ~out_buf_ready
                 THEN AdderSum(in_a, in_b)
                 ELSE spill_buf_data]

\* mutation: a stalled output register is loaded with the offered sum
RegsOverwriteOut ==
    IF ~rst_n
    THEN [ov |-> FALSE, od |-> 0, sv |-> FALSE, sd |-> 0]
    ELSE [ov |-> IF out_buf_ready
                 THEN (IF spill_buf_valid THEN TRUE
                       ELSE IF in_valid THEN TRUE
                       ELSE IF out_ready THEN FALSE ELSE out_buf_valid)
                 ELSE out_buf_valid,
          od |-> IF out_buf_ready
                 THEN (IF spill_buf_valid THEN spill_buf_data
                       ELSE IF in_valid THEN AdderSum(in_a, in_b)
                       ELSE out_buf_data)
                 ELSE IF in_valid THEN AdderSum(in_a, in_b)
                 ELSE out_buf_data,
          sv |-> IF out_buf_ready /\ spill_buf_valid THEN FALSE
                 ELSE IF in_valid /\ ~out_buf_ready /\ ~spill_buf_valid THEN TRUE
                 ELSE spill_buf_valid,
          sd |-> IF in_valid /\ ~out_buf_ready /\ ~spill_buf_valid
                 THEN AdderSum(in_a, in_b)
                 ELSE spill_buf_data]

\* Register values after a rising clock edge (or under reset), computed from
\* the current registers and ports with non-blocking assignment semantics.
RegsAfterEdge ==
    IF ~rst_n
    THEN [ov |-> FALSE, od |-> 0, sv |-> FALSE, sd |-> 0]
    ELSE [ov |-> IF out_buf_ready
                 THEN (IF spill_buf_valid THEN TRUE
                       ELSE IF in_valid THEN TRUE
                       ELSE IF out_ready THEN FALSE ELSE out_buf_valid)
                 ELSE out_buf_valid,
          od |-> IF out_buf_ready
                 THEN (IF spill_buf_valid THEN spill_buf_data
                       ELSE IF in_valid THEN AdderSum(in_a, in_b)
                       ELSE out_buf_data)
                 ELSE out_buf_data,
          sv |-> IF out_buf_ready /\ spill_buf_valid THEN FALSE
                 ELSE IF in_valid /\ ~out_buf_ready /\ ~spill_buf_valid THEN TRUE
                 ELSE spill_buf_valid,
          sd |-> IF in_valid /\ ~out_buf_ready /\ ~spill_buf_valid
                 THEN AdderSum(in_a, in_b)
                 ELSE spill_buf_data]

\* always_ff @(posedge clk or negedge rst_n): the registers take their new values
Posedge ==
    /\ out_buf_valid'   = RegsAfterEdge.ov
    /\ out_buf_data'    = RegsAfterEdge.od
    /\ spill_buf_valid' = RegsAfterEdge.sv
    /\ spill_buf_data'  = RegsAfterEdge.sd

\* sums held by the adder, oldest first
DutContents ==
    (IF out_buf_valid THEN <<out_buf_data>> ELSE <<>>)
    \o (IF spill_buf_valid THEN <<spill_buf_data>> ELSE <<>>)

----------------------------------------------------------------------------
(* Values the variables of the other system keep while one system runs *)

\* std::mt19937_64 rng(1);
RngSeed == 1

\* rand_bit(70), rand_bit(60), rng() & mask, rng() & mask: four values are
\* drawn in every iteration of the randomized loop
DrawsPerCycle == 4

\* mutation: the generator is seeded anew before every cycle's draws
DrawnReseeded(g, n) == [seed |-> g.seed + 1, draws |-> n]

\* the generator after n more calls of rng()
Drawn(g, n) == [g EXCEPT !.draws = @ + n]

TbIdle ==
    /\ i = 0 /\ t = 0 /\ expq = <<>> /\ errors = 0 /\ printed = 0
    /\ rng = [seed |-> RngSeed, draws |-> 0]
    /\ pre_valid = FALSE /\ pre_ready = FALSE /\ pre_sum = 0
    /\ a = 0 /\ b = 0 /\ got = 0 /\ ret = -1
    /\ expq_new = <<>> /\ did_accept = FALSE /\ sb_log = <<>>
    /\ edge_valid = FALSE /\ edge_ready = FALSE /\ edge_sum = 0
    /\ fired = FALSE

LogIdle ==
    /\ acc_log = <<>> /\ sent_log = <<>> /\ quiet = FALSE
    /\ held = 0 /\ held_done = FALSE /\ all_ready = TRUE

HostIdle ==
    /\ h_prog = "none" /\ h_ndebug = FALSE
    /\ h_in = <<>> /\ h_exp = <<>> /\ h_wrote = FALSE /\ h_rcs = <<>>
    /\ h_file = [present |-> FALSE, toks |-> <<>>] /\ h_got = <<>>
    /\ h_read = FALSE
    /\ h_i = 0 /\ h_mism = 0 /\ h_diag = <<>> /\ h_cmp = 0
    /\ h_summary = "none" /\ h_ret = -1
    /\ ref = <<>>

\* tb_top and the naive dut take no part
TopIdle ==
    /\ in_data = 0 /\ dut_out_valid = FALSE /\ out_data = 0
    /\ dr_st = "DR_IDLE" /\ sent_cnt = 0 /\ recv_cnt = 0
    /\ fin = <<>> /\ fin_eof = FALSE /\ fout = <<>> /\ top_file = <<>>
    /\ top_rep = 0 /\ top_ticks = 0 /\ top_end = "none"

SvIdle ==
    /\ sv_fin = <<>> /\ sv_fout = <<>> /\ n_sent = 0 /\ n_written = 0
    /\ sv_a = 0 /\ sv_b = 0 /\ sv_rep = 0
    /\ sv_tb = "none" /\ sv_file = <<>>

----------------------------------------------------------------------------
(* SpecDut: the adder under arbitrary traffic *)

\* registers before the first reset edge hold arbitrary valid bits
InitDut ==
    /\ clk = 0 /\ rst_n = FALSE
    /\ in_valid = FALSE /\ in_a = 0 /\ in_b = 0 /\ out_ready = FALSE
    /\ out_buf_valid \in BOOLEAN /\ spill_buf_valid \in BOOLEAN
    /\ out_buf_data = 0 /\ spill_buf_data = 0
    /\ pc = "d_reset"
    /\ TbIdle /\ LogIdle /\ HostIdle /\ SvIdle /\ TopIdle

\* a rising edge with rst_n low, then rst_n is released
DutReset ==
    /\ pc = "d_reset"
    /\ Posedge
    /\ rst_n' = TRUE
    /\ pc' = "d_drive"
    /\ UNCHANGED << clk, in_valid, in_a, in_b, out_ready >>
    /\ UNCHANGED tbVars /\ UNCHANGED logVars /\ UNCHANGED hostVars /\ UNCHANGED svVars /\ UNCHANGED topVars

\* clock low: producer and consumer choose the values for the coming edge
DutDrive ==
    /\ pc = "d_drive"
    /\ \E v \in BOOLEAN, x \in DutVals, y \in DutVals, r \in BOOLEAN :
          /\ quiet => (~v /\ r)
          /\ (v /\ in_ready) => Len(acc_log) < MaxAccept
          /\ in_valid' = v /\ in_a' = x /\ in_b' = y /\ out_ready' = r
          /\ held' = IF v /\ x = in_a /\ y = in_b THEN held ELSE 0
          /\ all_ready' = (all_ready /\ r)
    /\ clk' = 0
    /\ pc' = "d_edge"
    /\ UNCHANGED << rst_n >> /\ UNCHANGED regVars
    /\ UNCHANGED << acc_log, sent_log, quiet, held_done >>
    /\ UNCHANGED tbVars /\ UNCHANGED hostVars /\ UNCHANGED svVars /\ UNCHANGED topVars

\* rising edge: registers update; the transfers of this edge are logged
DutPosedge ==
    /\ pc = "d_edge"
    /\ Posedge
    /\ clk' = 1
    /\ acc_log' = IF in_valid /\ in_ready
                  THEN Append(acc_log, (in_a + in_b) % Pow2(W))
                  ELSE acc_log
    /\ sent_log' = IF out_valid /\ out_ready
                   THEN Append(sent_log, out_sum)
                   ELSE sent_log
    /\ held' = IF in_valid /\ ~in_ready
               THEN (IF held < MaxHeld THEN held + 1 ELSE held)
               ELSE 0
    /\ held_done' = (in_valid /\ in_ready /\ held >= 1)
    /\ all_ready' = all_ready
    /\ pc' = "d_drive"
    /\ UNCHANGED << rst_n, in_valid, in_a, in_b, out_ready, quiet >>
    /\ UNCHANGED tbVars /\ UNCHANGED hostVars /\ UNCHANGED svVars /\ UNCHANGED topVars

\* from this cycle on the producer is idle and the consumer always ready
DutQuiesce ==
    /\ pc = "d_drive"
    /\ ~quiet
    /\ quiet' = TRUE
    /\ UNCHANGED << pc, acc_log, sent_log, held, held_done, all_ready >>
    /\ UNCHANGED portVars /\ UNCHANGED regVars /\ UNCHANGED tbVars
    /\ UNCHANGED hostVars /\ UNCHANGED svVars /\ UNCHANGED topVars

NextDut == DutReset \/ DutDrive \/ DutPosedge \/ DutQuiesce

SpecDut == InitDut /\ [][NextDut]_vars

\* the clock keeps running
SpecDutFair == SpecDut /\ WF_vars(DutDrive) /\ WF_vars(DutPosedge)

----------------------------------------------------------------------------
(* tb_main.cpp: constants and scoreboard *)

ResetCycles    == 4      \* for (int i = 0; i < 4; ++i)
DrainLimit     == 64     \* for (int i = 0; i < 64 && ...; ++i)
PassStatus     == 0      \* return 0;
MismatchStatus == 1      \* return 1;

\* const Vec dirv[] = { {0,0}, {1,0}, {0,1}, {1,1}, {mask,1}, {mask,mask} };
dirv == << <<0, 0>>, <<1, 0>>, <<0, 1>>, <<1, 1>>, <<mask, 1>>, <<mask, mask>> >>

\* const int cycles = 2000;  explored up to RndCycles
cycles == RndCycles

\* mutation: the new expectation is inserted at the front of the queue
QPushFront(q, x) == <<x>> \o q

\* expq.push(x)
QPush(q, x) == Append(q, x)

\* expq.front()
QFront(q) == Head(q)

\* expq.pop()
QPop(q) == Tail(q)

\* if (top->in_valid && top->in_ready) expq.push((a + b) & mask);
PushIfAccepted(x, y) ==
    IF in_valid /\ in_ready
    THEN /\ expq' = QPush(expq, ExpectedSum(x, y))
         /\ expq_new' = QPush(expq_new, TRUE)
         /\ sb_log' = Append(sb_log, "push")
    ELSE UNCHANGED << expq, expq_new, sb_log >>

\* mutation: an entry that does not match is left in the queue
ScoreboardCheckNoPop(v, r, s) ==
    /\ fired' = (v /\ r)
    /\ IF v /\ r
       THEN /\ sb_log' = Append(sb_log, "pop")
            /\ IF expq = <<>>
               THEN /\ errors' = errors + 1
                    /\ printed' = printed + 1
                    /\ UNCHANGED << expq, expq_new, got >>
               ELSE /\ expq' = IF s # QFront(expq) THEN expq ELSE QPop(expq)
                    /\ expq_new' = [k \in 1 .. Len(expq') |-> FALSE]
                    /\ got' = s
                    /\ errors' = IF s # QFront(expq) THEN errors + 1 ELSE errors
                    /\ printed' = IF s # QFront(expq) THEN printed + 1 ELSE printed
       ELSE /\ expq_new' = [k \in 1 .. Len(expq) |-> FALSE]
            /\ UNCHANGED << sb_log, expq, got, errors, printed >>

\* if (v && r) { if (expq.empty()) ++errors;
\*               else { exp = expq.front(); expq.pop(); got = s;
\*                      if (got != exp) ++errors; } }
\* At the end of the cycle's bookkeeping no queue entry is new any more.
ScoreboardCheck(v, r, s) ==
    /\ fired' = (v /\ r)
    /\ IF v /\ r
       THEN /\ sb_log' = Append(sb_log, "pop")
            /\ IF expq = <<>>
               THEN /\ errors' = errors + 1
                    /\ printed' = printed + 1
                    /\ UNCHANGED << expq, expq_new, got >>
               ELSE /\ expq' = QPop(expq)
                    /\ expq_new' = [k \in 1 .. Len(expq) - 1 |-> FALSE]
                    /\ got' = s
                    /\ errors' = IF s # QFront(expq) THEN errors + 1 ELSE errors
                    /\ printed' = IF s # QFront(expq) THEN printed + 1 ELSE printed
       ELSE /\ expq_new' = [k \in 1 .. Len(expq) |-> FALSE]
            /\ UNCHANGED << sb_log, expq, got, errors, printed >>

\* top->clk = 1; top->eval();  the registers update; what the adder showed
\* and saw just before the edge is remembered for the properties
RisingEdge ==
    /\ clk' = 1
    /\ Posedge
    /\ edge_valid' = out_valid
    /\ edge_ready' = out_ready
    /\ edge_sum'   = out_sum
    /\ did_accept' = (in_valid /\ in_ready)

\* start of a loop body: the per-cycle observations start afresh
NewCycle ==
    /\ sb_log' = <<>>
    /\ fired' = FALSE
    /\ got' = 0
    /\ edge_valid' = FALSE /\ edge_ready' = FALSE /\ edge_sum' = 0

\* mutation: the drain stops as soon as expq is empty
DrainCondQueueOnly == i < DrainLimit /\ expq # <<>>

\* loop condition of both drain loops
DrainCond == i < DrainLimit /\ (expq # <<>> \/ out_valid)

----------------------------------------------------------------------------
(* tb_main.cpp: main() *)

Init ==
    /\ clk = 0 /\ rst_n = FALSE
    /\ in_valid = FALSE /\ in_a = 0 /\ in_b = 0 /\ out_ready = FALSE
    /\ out_buf_valid \in BOOLEAN /\ spill_buf_valid \in BOOLEAN
    /\ out_buf_data = 0 /\ spill_buf_data = 0
    /\ pc = "reset_low"
    /\ TbIdle /\ LogIdle /\ HostIdle /\ SvIdle /\ TopIdle

\* top->clk = 0; top->eval();
ResetLow ==
    /\ pc = "reset_low"
    /\ clk' = 0
    /\ pc' = "reset_high"
    /\ UNCHANGED << rst_n, in_valid, in_a, in_b, out_ready >>
    /\ UNCHANGED regVars /\ UNCHANGED tbVars /\ UNCHANGED logVars /\ UNCHANGED hostVars /\ UNCHANGED svVars /\ UNCHANGED topVars

\* mutation: reset is left after the first clock cycle
ResetHighOnce ==
    /\ pc = "reset_high"
    /\ clk' = 1
    /\ Posedge
    /\ i' = i + 1
    /\ pc' = "reset_done"
    /\ UNCHANGED << rst_n, in_valid, in_a, in_b, out_ready >>
    /\ UNCHANGED << t, expq, errors, printed, rng, pre_valid, pre_ready, pre_sum, a, b,
                    got, ret, expq_new, did_accept, sb_log,
                    edge_valid, edge_ready, edge_sum, fired >>
    /\ UNCHANGED logVars /\ UNCHANGED hostVars /\ UNCHANGED svVars /\ UNCHANGED topVars

\* top->clk = 1; top->eval();  ++i
ResetHigh ==
    /\ pc = "reset_high"
    /\ clk' = 1
    /\ Posedge
    /\ i' = i + 1
    /\ pc' = IF i + 1 < ResetCycles THEN "reset_low" ELSE "reset_done"
    /\ UNCHANGED << rst_n, in_valid, in_a, in_b, out_ready >>
    /\ UNCHANGED << t, expq, errors, printed, rng, pre_valid, pre_ready, pre_sum, a, b,
                    got, ret, expq_new, did_accept, sb_log,
                    edge_valid, edge_ready, edge_sum, fired >>
    /\ UNCHANGED logVars /\ UNCHANGED hostVars /\ UNCHANGED svVars /\ UNCHANGED topVars

\* top->rst_n = 1; int errors = 0;
ResetRelease ==
    /\ pc = "reset_done"
    /\ rst_n' = TRUE
    /\ errors' = 0
    /\ printed' = printed
    /\ rng' = rng
    /\ i' = 0
    /\ pc' = "dir"
    /\ UNCHANGED << clk, in_valid, in_a, in_b, out_ready >>
    /\ UNCHANGED regVars
    /\ UNCHANGED << t, expq, pre_valid, pre_ready, pre_sum, a, b,
                    got, ret, expq_new, did_accept, sb_log,
                    edge_valid, edge_ready, edge_sum, fired >>
    /\ UNCHANGED logVars /\ UNCHANGED hostVars /\ UNCHANGED svVars /\ UNCHANGED topVars

\* ---- directed loop: for (auto v : dirv), i counts the vectors done

DirDrive ==
    /\ pc = "dir" /\ i < Len(dirv)
    /\ a' = dirv[i + 1][1] /\ b' = dirv[i + 1][2]
    /\ clk' = 0
    /\ in_valid' = TRUE
    /\ in_a' = BitAnd(dirv[i + 1][1], mask, W)
    /\ in_b' = BitAnd(dirv[i + 1][2], mask, W)
    /\ out_ready' = TRUE
    /\ NewCycle
    /\ pc' = "dir_push"
    /\ UNCHANGED << rst_n >> /\ UNCHANGED regVars
    /\ UNCHANGED << i, t, expq, errors, printed, rng, pre_valid, pre_ready, pre_sum,
                    ret, expq_new, did_accept >>
    /\ UNCHANGED logVars /\ UNCHANGED hostVars /\ UNCHANGED svVars /\ UNCHANGED topVars

DirPush ==
    /\ pc = "dir_push"
    /\ PushIfAccepted(a, b)
    /\ pc' = "dir_edge"
    /\ UNCHANGED portVars /\ UNCHANGED regVars
    /\ UNCHANGED << i, t, errors, printed, rng, pre_valid, pre_ready, pre_sum, a, b,
                    got, ret, did_accept,
                    edge_valid, edge_ready, edge_sum, fired >>
    /\ UNCHANGED logVars /\ UNCHANGED hostVars /\ UNCHANGED svVars /\ UNCHANGED topVars

DirEdge ==
    /\ pc = "dir_edge"
    /\ RisingEdge
    /\ pc' = "dir_check"
    /\ UNCHANGED << rst_n, in_valid, in_a, in_b, out_ready >>
    /\ UNCHANGED << i, t, expq, errors, printed, rng, pre_valid, pre_ready, pre_sum, a, b,
                    got, ret, expq_new, sb_log, fired >>
    /\ UNCHANGED logVars /\ UNCHANGED hostVars /\ UNCHANGED svVars /\ UNCHANGED topVars

\* the check reads top->out_valid and top->out_sum after the edge's eval
DirCheck ==
    /\ pc = "dir_check"
    /\ ScoreboardCheck(out_valid, out_ready, out_sum)
    /\ UNCHANGED rng
    /\ i' = i + 1
    /\ a' = 0 /\ b' = 0
    /\ pc' = "dir"
    /\ UNCHANGED portVars /\ UNCHANGED regVars
    /\ UNCHANGED << t, pre_valid, pre_ready, pre_sum, ret, did_accept,
                    edge_valid, edge_ready, edge_sum >>
    /\ UNCHANGED logVars /\ UNCHANGED hostVars /\ UNCHANGED svVars /\ UNCHANGED topVars

DirExit ==
    /\ pc = "dir" /\ i >= Len(dirv)
    /\ i' = 0
    /\ pc' = "ddrain"
    /\ UNCHANGED portVars /\ UNCHANGED regVars
    /\ UNCHANGED << t, expq, errors, printed, rng, pre_valid, pre_ready, pre_sum, a, b,
                    got, ret, expq_new, did_accept, sb_log,
                    edge_valid, edge_ready, edge_sum, fired >>
    /\ UNCHANGED logVars /\ UNCHANGED hostVars /\ UNCHANGED svVars /\ UNCHANGED topVars

\* ---- drain loops (directed drain and final drain share their body)

\* top->clk = 0; top->in_valid = 0; top->out_ready = 1; top->eval();
DrainDrive ==
    /\ clk' = 0
    /\ in_valid' = FALSE
    /\ out_ready' = TRUE
    /\ NewCycle
    /\ UNCHANGED << rst_n, in_a, in_b >> /\ UNCHANGED regVars
    /\ UNCHANGED << i, t, expq, errors, printed, rng, pre_valid, pre_ready, pre_sum, a, b,
                    ret, expq_new, did_accept >>
    /\ UNCHANGED logVars /\ UNCHANGED hostVars /\ UNCHANGED svVars /\ UNCHANGED topVars

\* top->clk = 1; top->eval();
DrainEdge ==
    /\ RisingEdge
    /\ UNCHANGED << rst_n, in_valid, in_a, in_b, out_ready >>
    /\ UNCHANGED << i, t, expq, errors, printed, rng, pre_valid, pre_ready, pre_sum, a, b,
                    got, ret, expq_new, sb_log, fired >>
    /\ UNCHANGED logVars /\ UNCHANGED hostVars /\ UNCHANGED svVars /\ UNCHANGED topVars

\* the check reads top->out_valid and top->out_sum after the edge's eval
DrainCheck ==
    /\ ScoreboardCheck(out_valid, out_ready, out_sum)
    /\ UNCHANGED rng
    /\ i' = i + 1
    /\ UNCHANGED portVars /\ UNCHANGED regVars
    /\ UNCHANGED << t, pre_valid, pre_ready, pre_sum, a, b, ret, did_accept,
                    edge_valid, edge_ready, edge_sum >>
    /\ UNCHANGED logVars /\ UNCHANGED hostVars /\ UNCHANGED svVars /\ UNCHANGED topVars

DirDrainDrive ==
    /\ pc = "ddrain" /\ DrainCond
    /\ DrainDrive
    /\ pc' = "ddrain_edge"

DirDrainEdge ==
    /\ pc = "ddrain_edge"
    /\ DrainEdge
    /\ pc' = "ddrain_check"

DirDrainCheck ==
    /\ pc = "ddrain_check"
    /\ DrainCheck
    /\ pc' = "ddrain"

DirDrainExit ==
    /\ pc = "ddrain" /\ ~DrainCond
    /\ t' = 0
    /\ pc' = "rnd"
    /\ UNCHANGED portVars /\ UNCHANGED regVars
    /\ UNCHANGED << i, expq, errors, printed, rng, pre_valid, pre_ready, pre_sum, a, b,
                    got, ret, expq_new, did_accept, sb_log,
                    edge_valid, edge_ready, edge_sum, fired >>
    /\ UNCHANGED logVars /\ UNCHANGED hostVars /\ UNCHANGED svVars /\ UNCHANGED topVars

\* ---- randomized loop: for (int t = 0; t < cycles; ++t)

\* present = rand_bit(70); ready = rand_bit(60); a = rng() & mask; b = ...;
\* top->clk = 0; top->in_valid = present; top->in_a = a; top->in_b = b;
\* top->out_ready = ready; top->eval();
RndDrive ==
    /\ pc = "rnd" /\ t < cycles
    /\ \E present \in BOOLEAN, ready \in BOOLEAN, x \in Vals, y \in Vals :
          /\ a' = x /\ b' = y
          /\ in_valid' = present
          /\ in_a' = x /\ in_b' = y
          /\ out_ready' = ready
    /\ rng' = Drawn(rng, DrawsPerCycle)
    /\ clk' = 0
    /\ NewCycle
    /\ pc' = "rnd_snap"
    /\ UNCHANGED << rst_n >> /\ UNCHANGED regVars
    /\ UNCHANGED << i, t, expq, errors, printed, pre_valid, pre_ready, pre_sum,
                    ret, expq_new, did_accept >>
    /\ UNCHANGED logVars /\ UNCHANGED hostVars /\ UNCHANGED svVars /\ UNCHANGED topVars

\* mutation: out_ready is written again after the snapshot was taken
RndSnapshotRedrive ==
    /\ pc = "rnd_snap"
    /\ pre_valid' = out_valid
    /\ pre_ready' = out_ready
    /\ pre_sum' = out_sum
    /\ out_ready' = ~out_ready
    /\ pc' = "rnd_push"
    /\ UNCHANGED << clk, rst_n, in_valid, in_a, in_b >> /\ UNCHANGED regVars
    /\ UNCHANGED << i, t, expq, errors, printed, rng, a, b, got, ret, expq_new, did_accept,
                    sb_log, edge_valid, edge_ready, edge_sum, fired >>
    /\ UNCHANGED logVars /\ UNCHANGED hostVars /\ UNCHANGED svVars /\ UNCHANGED topVars

\* pre_valid = top->out_valid; pre_ready = top->out_ready; pre_sum = top->out_sum;
RndSnapshot ==
    /\ pc = "rnd_snap"
    /\ pre_valid' = out_valid
    /\ pre_ready' = out_ready
    /\ pre_sum' = out_sum
    /\ pc' = "rnd_push"
    /\ UNCHANGED portVars /\ UNCHANGED regVars
    /\ UNCHANGED << i, t, expq, errors, printed, rng, a, b, got, ret, expq_new, did_accept,
                    sb_log, edge_valid, edge_ready, edge_sum, fired >>
    /\ UNCHANGED logVars /\ UNCHANGED hostVars /\ UNCHANGED svVars /\ UNCHANGED topVars

RndPush ==
    /\ pc = "rnd_push"
    /\ PushIfAccepted(a, b)
    /\ pc' = "rnd_edge"
    /\ UNCHANGED portVars /\ UNCHANGED regVars
    /\ UNCHANGED << i, t, errors, printed, rng, pre_valid, pre_ready, pre_sum, a, b,
                    got, ret, did_accept,
                    edge_valid, edge_ready, edge_sum, fired >>
    /\ UNCHANGED logVars /\ UNCHANGED hostVars /\ UNCHANGED svVars /\ UNCHANGED topVars

RndEdge ==
    /\ pc = "rnd_edge"
    /\ RisingEdge
    /\ pc' = "rnd_check"
    /\ UNCHANGED << rst_n, in_valid, in_a, in_b, out_ready >>
    /\ UNCHANGED << i, t, expq, errors, printed, rng, pre_valid, pre_ready, pre_sum, a, b,
                    got, ret, expq_new, sb_log, fired >>
    /\ UNCHANGED logVars /\ UNCHANGED hostVars /\ UNCHANGED svVars /\ UNCHANGED topVars

\* the check uses the snapshot taken before the edge; the loop body ends
RndCheck ==
    /\ pc = "rnd_check"
    /\ ScoreboardCheck(pre_valid, pre_ready, pre_sum)
    /\ UNCHANGED rng
    /\ t' = t + 1
    /\ a' = 0 /\ b' = 0
    /\ pre_valid' = FALSE /\ pre_ready' = FALSE /\ pre_sum' = 0
    /\ pc' = "rnd"
    /\ UNCHANGED portVars /\ UNCHANGED regVars
    /\ UNCHANGED << i, ret, did_accept, edge_valid, edge_ready, edge_sum >>
    /\ UNCHANGED logVars /\ UNCHANGED hostVars /\ UNCHANGED svVars /\ UNCHANGED topVars

RndExit ==
    /\ pc = "rnd" /\ t >= cycles
    /\ i' = 0
    /\ pc' = "fdrain"
    /\ UNCHANGED portVars /\ UNCHANGED regVars
    /\ UNCHANGED << t, expq, errors, printed, rng, pre_valid, pre_ready, pre_sum, a, b,
                    got, ret, expq_new, did_accept, sb_log,
                    edge_valid, edge_ready, edge_sum, fired >>
    /\ UNCHANGED logVars /\ UNCHANGED hostVars /\ UNCHANGED svVars /\ UNCHANGED topVars

\* ---- final drain and exit

FinDrainDrive ==
    /\ pc = "fdrain" /\ DrainCond
    /\ DrainDrive
    /\ pc' = "fdrain_edge"

FinDrainEdge ==
    /\ pc = "fdrain_edge"
    /\ DrainEdge
    /\ pc' = "fdrain_check"

FinDrainCheck ==
    /\ pc = "fdrain_check"
    /\ DrainCheck
    /\ pc' = "fdrain"

\* if (errors) return 1;  return 0;
Exit ==
    /\ pc = "fdrain" /\ ~DrainCond
    /\ ret' = IF errors # 0 THEN MismatchStatus ELSE PassStatus
    /\ pc' = "done"
    /\ UNCHANGED portVars /\ UNCHANGED regVars
    /\ UNCHANGED << i, t, expq, errors, printed, rng, pre_valid, pre_ready, pre_sum, a, b,
                    got, expq_new, did_accept, sb_log,
                    edge_valid, edge_ready, edge_sum, fired >>
    /\ UNCHANGED logVars /\ UNCHANGED hostVars /\ UNCHANGED svVars /\ UNCHANGED topVars

Next ==
    \/ ResetLow \/ ResetHigh \/ ResetRelease
    \/ DirDrive \/ DirPush \/ DirEdge \/ DirCheck \/ DirExit
    \/ DirDrainDrive \/ DirDrainEdge \/ DirDrainCheck \/ DirDrainExit
    \/ RndDrive \/ RndSnapshot \/ RndPush \/ RndEdge \/ RndCheck \/ RndExit
    \/ FinDrainDrive \/ FinDrainEdge \/ FinDrainCheck \/ Exit

Spec == Init /\ [][Next]_vars

----------------------------------------------------------------------------
(* Properties of the adder alone (SpecDut) *)

\* C1: order preservation.  After reset the sums transferred so far,
\* followed by the sums still held (output buffer, then spill buffer), are
\* exactly the sums (a_k + b_k) mod 2^W of the accepted inputs in acceptance
\* order: the k-th output transfer carries the k-th accepted sum and nothing
\* is reordered, duplicated or dropped.
C1_OrderPreserved ==
    pc \in {"d_drive", "d_edge"} => acc_log = sent_log \o DutContents

\* a word has just moved from the spill buffer into the output buffer
\* behind an earlier, different word that was transferred
C1_Witness ==
    /\ pc = "d_drive" /\ clk = 1
    /\ out_buf_valid /\ out_ready /\ ~in_valid
    /\ Len(sent_log) >= 1
    /\ sent_log[Len(sent_log)] # out_buf_data
    /\ acc_log = sent_log \o <<out_buf_data>>

\* C2: no data loss under backpressure.  Once in_valid is held low and
\* out_ready is held high, the adder eventually is empty and every accepted
\* input has produced exactly one output transfer.
C2_DrainsWhenQuiet ==
    quiet ~> (~out_buf_valid /\ ~spill_buf_valid /\ sent_log = acc_log)

\* the adder was full when the traffic stopped and has emptied since
C2_Witness ==
    /\ quiet /\ ~out_buf_valid /\ ~spill_buf_valid
    /\ Len(sent_log) = MaxAccept
    /\ out_buf_data = spill_buf_data
    /\ sent_log[Len(sent_log)] # sent_log[Len(sent_log) - 1]

----------------------------------------------------------------------------
(* Properties of tb_main.cpp driving the adder (Spec) *)

RndPcs == {"rnd", "rnd_snap", "rnd_push", "rnd_edge", "rnd_check"}

\* C3: same-edge pop/push correctness.  In the randomized loop, when a
\* completion (pre_valid && pre_ready) and an acceptance (in_valid &&
\* in_ready) happen on the same edge, the expectation about to be popped and
\* compared was enqueued on an earlier edge, not for this edge's acceptance.
C3_PopsOlderEntry ==
    (pc = "rnd_check" /\ pre_valid /\ pre_ready /\ did_accept)
        => (expq # <<>> /\ ~Head(expq_new))

\* completion and acceptance on one edge; the entry to pop is old and the
\* entry pushed for this edge waits behind it with a different value
C3_Witness ==
    /\ pc = "rnd_check" /\ pre_valid /\ pre_ready /\ did_accept
    /\ Len(expq) >= 2
    /\ ~expq_new[1] /\ expq_new[Len(expq)]
    /\ expq[1] = pre_sum /\ expq[Len(expq)] # pre_sum

\* C4: within one edge of the randomized loop the scoreboard processes the
\* completion (pop and compare) before it processes the acceptance (push).
C4_PopBeforePush ==
    pc \in RndPcs =>
        \A j \in 1 .. Len(sb_log), k \in 1 .. Len(sb_log) :
            (sb_log[j] = "push" /\ sb_log[k] = "pop") => k < j

\* C5: held stimulus.  If in cycle K of the randomized loop in_valid is high
\* and the adder does not accept, cycle K+1 drives in_valid high again with
\* the same in_a and in_b.
C5_HeldStimulus ==
    [][ (pc = "rnd" /\ pc' = "rnd_snap" /\ t >= 1 /\ in_valid /\ ~did_accept)
            => (in_valid' /\ in_a' = in_a /\ in_b' = in_b) ]_vars

\* C6: no error is counted inside the randomized loop: errors stays 0 and
\* every pre-edge completion finds a non-empty expq whose front is pre_sum.
C6_NoErrorsInRnd ==
    /\ pc \in RndPcs => errors = 0
    /\ (pc = "rnd_check" /\ pre_valid /\ pre_ready)
           => (expq # <<>> /\ Head(expq) = pre_sum)

\* the randomized loop has run to its end, its last cycle compared a
\* completion while the adder was full, and no error was counted
C6_Witness ==
    /\ pc = "rnd" /\ t = cycles /\ fired /\ errors = 0
    /\ got = edge_sum /\ expq # <<>>

\* C7: full drain after stimulus.  The final drain leaves expq empty within
\* its 64 iterations and counts no error.
C7_FullDrain ==
    pc = "done" => (expq = <<>> /\ errors = 0)

\* C8: a drain timeout is a failure.  If the final drain used all its
\* iterations with expq still non-empty, the exit status is non-zero and
\* differs from the data-mismatch status.
C8_TimeoutIsFailure ==
    (pc = "done" /\ i = DrainLimit /\ expq # <<>>)
        => (ret # PassStatus /\ ret # MismatchStatus)

\* C9: pre-edge sampling in every phase.  After each scoreboard check, the
\* decision that a completion occurred equals out_valid && out_ready as they
\* stood just before that edge, and the compared value is the out_sum of
\* that moment.
C9_PreEdgeSampling ==
    pc \in {"dir", "ddrain", "rnd", "fdrain"} =>
        /\ fired = (edge_valid /\ edge_ready)
        /\ fired => got = edge_sum

\* C10: no spurious completions.  Whenever one of the four scoreboard
\* checks observes a completion, expq is non-empty.
C10_NoSpurious ==
    /\ (pc \in {"dir_check", "ddrain_check", "fdrain_check"}
            /\ out_valid /\ out_ready) => expq # <<>>
    /\ (pc = "rnd_check" /\ pre_valid /\ pre_ready) => expq # <<>>

\* the final drain observes a completion after randomized traffic
C10_Witness ==
    /\ pc = "fdrain_check" /\ out_valid /\ out_ready
    /\ expq # <<>> /\ t = cycles

\* C11: the scoreboard queue is bounded by the adder's capacity.  At the
\* end of every cycle of every loop (after the cycle's check) expq holds at
\* most 2 expectations.
C11_QueueBounded ==
    pc \in {"dir", "ddrain", "rnd", "fdrain", "done"} => Len(expq) <= 2

\* a randomized cycle ends with two expectations queued and the adder full
C11_Witness ==
    /\ pc = "rnd" /\ t >= 1
    /\ Len(expq) = 2
    /\ out_buf_valid /\ spill_buf_valid

\* C12: directed scenario.  The vectors (0,0),(1,0),(0,1),(1,1),(mask,1)
\* are driven one per cycle with out_ready high, each is accepted on its own
\* cycle, the values compared are 0,1,1,2,0 in that order (the last wraps),
\* and the directed loop and its drain end with errors = 0.
C12_DirectedScenario ==
    /\ (pc = "dir" /\ i \in 1 .. 5) =>
          /\ in_a = <<0, 1, 0, 1, mask>>[i]
          /\ in_b = <<0, 0, 1, 1, 1>>[i]
          /\ out_ready /\ did_accept
          /\ fired /\ got = <<0, 1, 1, 2, 0>>[i]
          /\ errors = 0
    /\ (pc \in {"dir", "ddrain"} \/ (pc = "rnd" /\ t = 0)) => errors = 0

\* the fifth vector (mask,1) has been accepted and its wrapped sum compared
C12_Witness ==
    /\ pc = "dir" /\ i = 5
    /\ in_a = mask /\ in_b = 1 /\ did_accept
    /\ fired /\ got = 0 /\ errors = 0

----------------------------------------------------------------------------
(* More properties of the adder alone (SpecDut) *)

\* C14: a stalled offer is consumed exactly once.  While an offer is held
\* with in_ready low nothing of it is stored or shown; at the first edge
\* with in_ready high exactly one copy of (a + b) mod 2^W is stored behind
\* the older words, and the transfer made at that very edge, if any, is an
\* older word (the new sum needs at least one more edge to complete).
\* Every accepted input is, at all times, either transferred once or held
\* once.
C14_StalledOfferOnce ==
    /\ [](pc \in {"d_drive", "d_edge"}
             => Len(acc_log) = Len(sent_log) + Len(DutContents))
    /\ [][ pc = "d_edge" =>
             LET rest == IF out_valid /\ out_ready
                         THEN Tail(DutContents) ELSE DutContents
                 sum  == (in_a + in_b) % Pow2(W)
             IN  /\ (in_valid /\ ~in_ready)
                       => (acc_log' = acc_log /\ DutContents' = rest)
                 /\ (held >= 1 /\ in_valid /\ in_ready)
                       => /\ acc_log' = Append(acc_log, sum)
                          /\ DutContents' = Append(rest, sum)
                          /\ Len(sent_log') <= Len(acc_log) ]_vars

\* an offer stalled for at least one edge has just been accepted as the
\* third input, after an older word was transferred
C14_Witness ==
    /\ pc = "d_drive" /\ held_done
    /\ Len(acc_log) = 3 /\ Len(sent_log) >= 1
    /\ acc_log[3] = (in_a + in_b) % Pow2(W)
    /\ DutContents[Len(DutContents)] = acc_log[3]

----------------------------------------------------------------------------
(* SpecRef: the reference sums of the hosts against the adder's register *)

\* the low n bits of v: a conversion to an n-bit unsigned type
RECURSIVE LowBits(_, _)
LowBits(v, n) ==
    IF n = 0 THEN 0 ELSE (v % 2) + 2 * LowBits(v \div 2, n - 1)

\* mutation: the wide sum without the narrowing cast
HostSumNoCast(x, y) == (x + y) % Pow2(2 * W)

\* uint32_t exp = (uint32_t)((uint64_t)a + b);  the sum is formed in a type
\* twice as wide as the operands, then narrowed to the operand width
HostSum(x, y) == LowBits((x + y) % Pow2(2 * W), W)

\* one offer of any two W-bit operands to an adder out of reset whose output
\* register is empty or full, with the consumer ready or not
InitRef ==
    /\ clk = 0 /\ rst_n = TRUE
    /\ in_valid = TRUE /\ in_a \in 0 .. mask /\ in_b \in 0 .. mask
    /\ out_ready \in BOOLEAN
    /\ out_buf_valid \in BOOLEAN /\ out_buf_data = 0
    /\ spill_buf_valid = FALSE /\ spill_buf_data = 0
    /\ pc = "ref"
    /\ TbIdle /\ LogIdle /\ HostIdle /\ SvIdle /\ TopIdle

\* both hosts compute their expected value for the operands
RefHost ==
    /\ pc = "ref"
    /\ ref' = << [host |-> HostSum(in_a, in_b), tb |-> ExpectedSum(in_a, in_b)] >>
    /\ pc' = "ref_edge"
    /\ UNCHANGED portVars /\ UNCHANGED regVars /\ UNCHANGED tbVars
    /\ UNCHANGED logVars
    /\ UNCHANGED << h_prog, h_ndebug, h_in, h_exp, h_wrote, h_rcs, h_file,
                    h_got, h_i, h_mism, h_diag, h_cmp, h_summary, h_ret,
                    h_read >>
    /\ UNCHANGED svVars /\ UNCHANGED topVars

\* the adder takes the offer at the rising edge
RefEdge ==
    /\ pc = "ref_edge"
    /\ clk' = 1
    /\ Posedge
    /\ pc' = "ref_done"
    /\ UNCHANGED << rst_n, in_valid, in_a, in_b, out_ready >>
    /\ UNCHANGED tbVars /\ UNCHANGED logVars /\ UNCHANGED hostVars /\ UNCHANGED svVars /\ UNCHANGED topVars

NextRef == RefHost \/ RefEdge

SpecRef == InitRef /\ [][NextRef]_vars

\* the word the adder stored at the edge: in the spill register when the
\* output register was occupied and not released, else in the output register
RefStored == IF spill_buf_valid THEN spill_buf_data ELSE out_buf_data

\* C13: for all W-bit a and b, the expected values of both hosts equal
\* (a + b) mod 2^W, and that is the value the adder stores for in_a = a,
\* in_b = b.
C13_RefMatchesDut ==
    pc = "ref_done" =>
        /\ ref[1].host = (in_a + in_b) % Pow2(W)
        /\ ref[1].tb = (in_a + in_b) % Pow2(W)
        /\ out_buf_valid
        /\ RefStored = ref[1].host
        /\ RefStored = ref[1].tb

\* a sum that wraps, stored through the spill register
C13_Witness ==
    /\ pc = "ref_done" /\ in_a = mask /\ in_b = 2
    /\ spill_buf_valid /\ spill_buf_data = 1
    /\ ref[1].host = 1 /\ ref[1].tb = 1

----------------------------------------------------------------------------
(* SpecHost: the file-based hosts, cosim_tb.cpp and the naive C host *)

DiagCap     == 10    \* if (mism < 10): MISMATCH lines printed at most
COSIM_SEED  == 1
LcgMul      == 1664525
LcgInc      == 1013904223
NaiveOffset == 512   \* in[i] = (int)(i - 512)
AllocStatus == 1
WriteStatus == 2
ToolStatus  == 3
ReadStatus  == 4
FailStatus  == 5
AbortStatus == 134   \* abort(): the process dies of SIGABRT (128 + 6)

\* auto lcg = [&](){ s = s * 1664525u + 1013904223u; return s; };
Lcg(s) == (s * LcgMul + LcgInc) % Pow2(W)

\* for (i < COSIM_N) { a = lcg(); b = lcg(); in.emplace_back(a, b); }
RECURSIVE LcgPairs(_, _)
LcgPairs(s, n) ==
    IF n = 0 THEN <<>>
    ELSE LET x == Lcg(s)
             y == Lcg(x)
         IN  << <<x, y>> >> \o LcgPairs(y, n - 1)

\* in[i] = (int)(i - 512); for i = 0 .. N-1
NaiveIn == [k \in 1 .. HostN |-> (k - 1) - NaiveOffset]

\* gld[i] = in[i] * in[i];
NaiveGld == [k \in 1 .. HostN |-> NaiveIn[k] * NaiveIn[k]]

\* exit codes the external commands are modelled to give: success, an
\* ordinary failure, system() failing (-1)
HostRcs == {0, 1, -1}

\* if (run_cmd(...) != 0) ... ;  if (rc != 0) ...
ToolFailed(rc) == rc # 0

\* mutation: the simulator's exit code is ignored
LaunchSimIgnore(rc) == 0

\* launch_sim: rc = system(VSIM_CMD); if (rc != 0) return 3; return 0;
LaunchSim(rc) == IF rc # 0 THEN ToolStatus ELSE 0

\* an output file is a sequence of whitespace-separated tokens; a token
\* either parses as a number (ok) or does not
Tok(v) == [ok |-> TRUE, v |-> v]
BadTok == [ok |-> FALSE, v |-> 0]
NoFile == [present |-> FALSE, toks |-> <<>>]
File(toks) == [present |-> TRUE, toks |-> toks]

\* mutation: tokens that fail to parse are kept as zeros
ReadOutputsTxtKeepBad(toks) == [k \in 1 .. Len(toks) |-> toks[k].v]

\* read_outputs_txt: while (ifs >> tok) { ss >> v; if (!ss.fail()) out.push_back(v); }
ReadOutputsTxt(toks) ==
    LET good == SelectSeq(toks, LAMBDA x : x.ok)
    IN  [k \in 1 .. Len(good) |-> good[k].v]

\* read_outputs: -1 if n <= 0 (the file is not opened) or if the file cannot
\* be opened, -2 if one of the first n items cannot be scanned, else 0 with
\* the first n items; what follows the n-th item is never looked at
ReadOutputs(f, n) ==
    IF n <= 0 THEN [rc |-> -1, vec |-> <<>>]
    ELSE IF ~f.present THEN [rc |-> -1, vec |-> <<>>]
    ELSE IF \E k \in 1 .. n : k > Len(f.toks) \/ ~f.toks[k].ok
         THEN [rc |-> -2, vec |-> <<>>]
         ELSE [rc |-> 0, vec |-> [k \in 1 .. n |-> f.toks[k].v]]

\* mutation: any number of values at least N passes the length check
LengthAtLeast(g) == Len(g) >= HostN

\* if ((int)got.size() != COSIM_N) return 4;
LengthOk(g) == Len(g) = HostN

\* mutation: every mismatch is printed
DiagPrintedAlways(m) == TRUE

\* if (mism < 10) print the MISMATCH line
DiagPrinted(m) == m < DiagCap

\* expected outputs of the running host
CosimExp == [k \in 1 .. HostN |-> HostSum(LcgPairs(COSIM_SEED, HostN)[k][1],
                                          LcgPairs(COSIM_SEED, HostN)[k][2])]
HostExp == IF h_prog = "cosim" THEN CosimExp ELSE NaiveGld

\* a value that differs from the expected one at the same position
HostWrong == IF h_prog = "cosim"
             THEN [k \in 1 .. HostN |-> (CosimExp[k] + 1) % Pow2(W)]
             ELSE [k \in 1 .. HostN |-> NaiveGld[k] + 1]

\* the output files a simulator run can leave behind: N values with any
\* set of positions wrong; fewer than N right values; N right values and
\* one more; right values with a token that does not parse, in place of a
\* value or next to the values; no file
HostFiles ==
    LET good == [k \in 1 .. HostN |-> Tok(HostExp[k])]
    IN  { File([k \in 1 .. HostN |->
                 Tok(IF k \in S THEN HostWrong[k] ELSE HostExp[k])])
            : S \in SUBSET (1 .. HostN) }
        \cup { File(SubSeq(good, 1, n)) : n \in 0 .. HostN - 1 }
        \cup { File(Append(good, Tok(0))),
               File(Append(good, BadTok)),
               File(<<BadTok>> \o good),
               File([good EXCEPT ![1] = BadTok]),
               File([good EXCEPT ![HostN] = BadTok]),
               NoFile }

\* the adder and tb_main.cpp take no part in a host run
HostOnly ==
    /\ UNCHANGED portVars /\ UNCHANGED regVars /\ UNCHANGED tbVars
    /\ UNCHANGED logVars /\ UNCHANGED ref /\ UNCHANGED svVars /\ UNCHANGED topVars

\* return <status>; from main, or the death of the process
HostExit(status) == h_ret' = status /\ pc' = "h_exit"

\* either host is started; the naive host is built with or without NDEBUG
InitHost ==
    /\ clk = 0 /\ rst_n = FALSE
    /\ in_valid = FALSE /\ in_a = 0 /\ in_b = 0 /\ out_ready = FALSE
    /\ out_buf_valid = FALSE /\ out_buf_data = 0
    /\ spill_buf_valid = FALSE /\ spill_buf_data = 0
    /\ TbIdle /\ LogIdle /\ SvIdle /\ TopIdle
    /\ pc = "h_start"
    /\ h_prog \in {"cosim", "naive"}
    /\ h_ndebug \in (IF h_prog = "naive" THEN BOOLEAN ELSE {FALSE})
    /\ h_in = <<>> /\ h_exp = <<>> /\ h_wrote = FALSE /\ h_rcs = <<>>
    /\ h_file = NoFile /\ h_got = <<>> /\ h_read = FALSE
    /\ h_i = 0 /\ h_mism = 0 /\ h_diag = <<>> /\ h_cmp = 0
    /\ h_summary = "none" /\ h_ret = -1
    /\ ref = <<>>

\* ---- cosim_tb.cpp: main()

\* lines 135-143: the stimulus vector
CosimStimulus ==
    /\ pc = "h_start" /\ h_prog = "cosim"
    /\ h_in' = LcgPairs(COSIM_SEED, HostN)
    /\ pc' = "h_write"
    /\ UNCHANGED << h_prog, h_ndebug, h_exp, h_wrote, h_rcs, h_file, h_got,
                    h_i, h_mism, h_diag, h_cmp, h_summary, h_ret, h_read >>
    /\ HostOnly

\* lines 144-148: if (!write_inputs_txt(INP, in)) return 2; remove(OUT)
CosimWrite ==
    /\ pc = "h_write" /\ h_prog = "cosim"
    /\ \E ok \in BOOLEAN :
         /\ h_wrote' = ok
         /\ IF ok THEN pc' = "h_vlib" /\ h_ret' = h_ret /\ h_file' = NoFile
                  ELSE HostExit(WriteStatus) /\ UNCHANGED h_file
    /\ UNCHANGED << h_prog, h_ndebug, h_in, h_exp, h_rcs, h_got,
                    h_i, h_mism, h_diag, h_cmp, h_summary, h_read >>
    /\ HostOnly

\* line 155: if (run_cmd("vlib work", WORK) != 0) return 3;
\* run_cmd throws when the work directory cannot be entered; main catches
\* nothing, so the process is aborted
CosimVlib ==
    /\ pc = "h_vlib" /\ h_prog = "cosim"
    /\ \/ /\ HostExit(AbortStatus)
          /\ UNCHANGED h_rcs
       \/ \E rc \in HostRcs :
            /\ h_rcs' = Append(h_rcs, rc)
            /\ IF ToolFailed(rc) THEN HostExit(ToolStatus)
                                 ELSE pc' = "h_vlog" /\ h_ret' = h_ret
    /\ UNCHANGED << h_prog, h_ndebug, h_in, h_exp, h_wrote, h_file, h_got,
                    h_i, h_mism, h_diag, h_cmp, h_summary, h_read >>
    /\ HostOnly

\* line 164: if (run_cmd(vlog_cmd.str(), WORK) != 0) return 3;
CosimVlog ==
    /\ pc = "h_vlog" /\ h_prog = "cosim"
    /\ \/ /\ HostExit(AbortStatus)
          /\ UNCHANGED h_rcs
       \/ \E rc \in HostRcs :
            /\ h_rcs' = Append(h_rcs, rc)
            /\ IF ToolFailed(rc) THEN HostExit(ToolStatus)
                                 ELSE pc' = "h_vsim" /\ h_ret' = h_ret
    /\ UNCHANGED << h_prog, h_ndebug, h_in, h_exp, h_wrote, h_file, h_got,
                    h_i, h_mism, h_diag, h_cmp, h_summary, h_read >>
    /\ HostOnly

\* line 169: if (run_cmd(vsim_cmd.str(), WORK) != 0) return 3;
\* a simulator that exits with 0 leaves some output file, or none
CosimVsim ==
    /\ pc = "h_vsim" /\ h_prog = "cosim"
    /\ \/ /\ HostExit(AbortStatus)
          /\ UNCHANGED << h_rcs, h_file >>
       \/ \E rc \in HostRcs :
            /\ h_rcs' = Append(h_rcs, rc)
            /\ IF ToolFailed(rc)
               THEN HostExit(ToolStatus) /\ UNCHANGED h_file
               ELSE /\ pc' = "h_read" /\ h_ret' = h_ret
                    /\ h_file' \in HostFiles
    /\ UNCHANGED << h_prog, h_ndebug, h_in, h_exp, h_wrote, h_got,
                    h_i, h_mism, h_diag, h_cmp, h_summary, h_read >>
    /\ HostOnly

\* lines 172-176: if (!read_outputs_txt(OUT, got)) return 4;
CosimRead ==
    /\ pc = "h_read" /\ h_prog = "cosim"
    /\ h_read' = h_file.present
    /\ IF h_file.present
       THEN /\ h_got' = ReadOutputsTxt(h_file.toks)
            /\ pc' = "h_len" /\ h_ret' = h_ret
       ELSE /\ HostExit(ReadStatus)
            /\ UNCHANGED h_got
    /\ UNCHANGED << h_prog, h_ndebug, h_in, h_exp, h_wrote, h_rcs, h_file,
                    h_i, h_mism, h_diag, h_cmp, h_summary >>
    /\ HostOnly

\* lines 177-183: if ((int)got.size() != COSIM_N) return 4;  size_t mism = 0;
CosimLength ==
    /\ pc = "h_len" /\ h_prog = "cosim"
    /\ IF LengthOk(h_got)
       THEN pc' = "h_cmp" /\ h_ret' = h_ret
       ELSE HostExit(ReadStatus)
    /\ h_i' = 0 /\ h_mism' = 0
    /\ UNCHANGED << h_prog, h_ndebug, h_in, h_exp, h_wrote, h_rcs, h_file,
                    h_got, h_diag, h_cmp, h_summary, h_read >>
    /\ HostOnly

\* lines 184-196: one iteration of the compare loop
CosimCompare ==
    /\ pc = "h_cmp" /\ h_prog = "cosim" /\ h_i < HostN
    /\ LET exp == HostSum(h_in[h_i + 1][1], h_in[h_i + 1][2])
       IN  /\ h_exp' = Append(h_exp, exp)
           /\ IF h_got[h_i + 1] # exp
              THEN /\ h_diag' = IF DiagPrinted(h_mism)
                                THEN Append(h_diag, h_i) ELSE h_diag
                   /\ h_mism' = h_mism + 1
              ELSE UNCHANGED << h_diag, h_mism >>
    /\ h_cmp' = h_cmp + 1
    /\ h_i' = h_i + 1
    /\ UNCHANGED << pc, h_prog, h_ndebug, h_in, h_wrote, h_rcs, h_file,
                    h_got, h_summary, h_ret, h_read >>
    /\ HostOnly

\* lines 198-204: PASS and return 0, or FAIL and return 5
CosimVerdict ==
    /\ pc = "h_cmp" /\ h_prog = "cosim" /\ h_i >= HostN
    /\ h_summary' = IF h_mism = 0 THEN "PASS" ELSE "FAIL"
    /\ HostExit(IF h_mism = 0 THEN 0 ELSE FailStatus)
    /\ UNCHANGED << h_prog, h_ndebug, h_in, h_exp, h_wrote, h_rcs, h_file,
                    h_got, h_i, h_mism, h_diag, h_cmp, h_read >>
    /\ HostOnly

\* ---- the naive C host: main()

\* lines 35-48: the three buffers are allocated (return 1 when malloc
\* fails), inputs and golden values are filled in
NaiveSetup ==
    /\ pc = "h_start" /\ h_prog = "naive"
    /\ \E ok \in BOOLEAN :
         IF ok THEN /\ h_in' = NaiveIn
                    /\ h_exp' = NaiveGld
                    /\ pc' = "h_write" /\ h_ret' = h_ret
               ELSE /\ HostExit(AllocStatus)
                    /\ UNCHANGED << h_in, h_exp >>
    /\ UNCHANGED << h_prog, h_ndebug, h_wrote, h_rcs, h_file, h_got,
                    h_i, h_mism, h_diag, h_cmp, h_summary, h_read >>
    /\ HostOnly

\* lines 51-54: if (write_inputs(INPUT_FILE, in, N) != 0) return 2;
NaiveWrite ==
    /\ pc = "h_write" /\ h_prog = "naive"
    /\ \E ok \in BOOLEAN :
         /\ h_wrote' = ok
         /\ IF ok THEN pc' = "h_vsim" /\ h_ret' = h_ret
                  ELSE HostExit(WriteStatus)
    /\ UNCHANGED << h_prog, h_ndebug, h_in, h_exp, h_rcs, h_file, h_got,
                    h_i, h_mism, h_diag, h_cmp, h_summary, h_read >>
    /\ HostOnly

\* line 57: assert(launch_sim() == 0);  a failed assertion aborts the
\* process; built with NDEBUG the expression is not evaluated, so no
\* simulator runs and the output file is whatever lies on the disk
NaiveLaunch ==
    /\ pc = "h_vsim" /\ h_prog = "naive"
    /\ IF h_ndebug
       THEN /\ h_file' \in HostFiles
            /\ pc' = "h_read"
            /\ UNCHANGED << h_rcs, h_ret >>
       ELSE \E rc \in HostRcs :
              /\ h_rcs' = Append(h_rcs, rc)
              /\ IF LaunchSim(rc) = 0
                 THEN /\ h_file' \in HostFiles
                      /\ pc' = "h_read" /\ h_ret' = h_ret
                 ELSE /\ HostExit(AbortStatus)
                      /\ UNCHANGED h_file
    /\ UNCHANGED << h_prog, h_ndebug, h_in, h_exp, h_wrote, h_got,
                    h_i, h_mism, h_diag, h_cmp, h_summary, h_read >>
    /\ HostOnly

\* lines 60-66: if (read_outputs(OUTPUT_FILE, out, N) != 0) return 4;
\* size_t mism = 0;
NaiveRead ==
    /\ pc = "h_read" /\ h_prog = "naive"
    /\ h_read' = h_file.present
    /\ LET res == ReadOutputs(h_file, HostN)
       IN  IF res.rc # 0
           THEN /\ HostExit(ReadStatus)
                /\ UNCHANGED h_got
           ELSE /\ h_got' = res.vec
                /\ pc' = "h_cmp" /\ h_ret' = h_ret
    /\ h_i' = 0 /\ h_mism' = 0
    /\ UNCHANGED << h_prog, h_ndebug, h_in, h_exp, h_wrote, h_rcs, h_file,
                    h_diag, h_cmp, h_summary >>
    /\ HostOnly

\* lines 67-75: one iteration of the compare loop
NaiveCompare ==
    /\ pc = "h_cmp" /\ h_prog = "naive" /\ h_i < HostN
    /\ IF h_got[h_i + 1] # h_exp[h_i + 1]
       THEN /\ h_diag' = IF DiagPrinted(h_mism)
                         THEN Append(h_diag, h_i) ELSE h_diag
            /\ h_mism' = h_mism + 1
       ELSE UNCHANGED << h_diag, h_mism >>
    /\ h_cmp' = h_cmp + 1
    /\ h_i' = h_i + 1
    /\ UNCHANGED << pc, h_prog, h_ndebug, h_in, h_exp, h_wrote, h_rcs,
                    h_file, h_got, h_summary, h_ret, h_read >>
    /\ HostOnly

\* lines 77-84: PASS or FAIL is printed; return (mism == 0) ? 0 : 5;
NaiveVerdict ==
    /\ pc = "h_cmp" /\ h_prog = "naive" /\ h_i >= HostN
    /\ h_summary' = IF h_mism = 0 THEN "PASS" ELSE "FAIL"
    /\ HostExit(IF h_mism = 0 THEN 0 ELSE FailStatus)
    /\ UNCHANGED << h_prog, h_ndebug, h_in, h_exp, h_wrote, h_rcs, h_file,
                    h_got, h_i, h_mism, h_diag, h_cmp, h_read >>
    /\ HostOnly

NextHost ==
    \/ CosimStimulus \/ CosimWrite \/ CosimVlib \/ CosimVlog \/ CosimVsim
    \/ CosimRead \/ CosimLength \/ CosimCompare \/ CosimVerdict
    \/ NaiveSetup \/ NaiveWrite \/ NaiveLaunch \/ NaiveRead
    \/ NaiveCompare \/ NaiveVerdict

SpecHost == InitHost /\ [][NextHost]_vars

\* ---- what a finished run did, in terms of its inputs

AllToolsOk(n) == Len(h_rcs) = n /\ \A k \in 1 .. n : h_rcs[k] = 0
SomeToolFailed == \E k \in 1 .. Len(h_rcs) : h_rcs[k] # 0

\* positions (counted from 0) where the value read differs from the
\* expected one
MismatchAt == { k \in 0 .. HostN - 1 :
                  k + 1 <= Len(h_got) /\ h_got[k + 1] # HostExp[k + 1] }

\* the values cosim_tb.cpp obtains from the file
CosimValues == ReadOutputsTxt(h_file.toks)

\* C15: exit status of cosim_tb.cpp: 2 when the input file cannot be
\* written; 3 when vlib, vlog or vsim returns non-zero; 4 when the outputs
\* cannot be read or their count differs from N; 5 when N outputs were read
\* and at least one differs; 0 if and only if N outputs were read and all
\* are equal to the expected values.  Every run ends with one of these
\* five statuses, and the five cases exclude one another.
C15_CosimExitStatus ==
    (pc = "h_exit" /\ h_prog = "cosim") =>
        /\ h_ret \in {WriteStatus, ToolStatus, ReadStatus, FailStatus, 0}
        /\ ~h_wrote <=> h_ret = WriteStatus
        /\ SomeToolFailed <=> h_ret = ToolStatus
        /\ (AllToolsOk(3) /\ (~h_file.present \/ Len(CosimValues) # HostN))
              <=> h_ret = ReadStatus
        /\ (AllToolsOk(3) /\ h_file.present /\ Len(CosimValues) = HostN
                /\ \E k \in 1 .. HostN : CosimValues[k] # CosimExp[k])
              <=> h_ret = FailStatus
        /\ (AllToolsOk(3) /\ h_file.present /\ Len(CosimValues) = HostN
                /\ \A k \in 1 .. HostN : CosimValues[k] = CosimExp[k])
              <=> h_ret = 0
        /\ h_ret = 0 => (h_wrote /\ h_read /\ h_got = CosimExp)

\* C16: in cosim_tb.cpp, when the number of values read differs from N
\* (fewer or more), main returns 4 before the compare loop: nothing is
\* compared, no mismatch is counted or printed, neither PASS nor FAIL is
\* printed.
C16_LengthMismatchReturns4 ==
    (h_prog = "cosim" /\ h_read /\ Len(h_got) # HostN) =>
        /\ pc \in {"h_len", "h_exit"}
        /\ pc = "h_exit" => h_ret = ReadStatus
        /\ h_cmp = 0 /\ h_mism = 0 /\ h_diag = <<>> /\ h_exp = <<>>
        /\ h_summary = "none"

\* one value more than N was read, all N first ones right
C16_Witness ==
    /\ pc = "h_exit" /\ h_prog = "cosim" /\ h_read
    /\ Len(h_got) = HostN + 1 /\ SubSeq(h_got, 1, HostN) = CosimExp
    /\ h_ret = ReadStatus /\ h_cmp = 0 /\ h_summary = "none"

\* C17: the naive host returns 4 whenever the output file cannot be read
\* or the number of records in it differs from N, fewer or more, and
\* compares nothing in that case.
C17_NaiveLengthCheck ==
    (pc = "h_exit" /\ h_prog = "naive" /\ h_wrote /\ ~SomeToolFailed
        /\ (~h_file.present \/ Len(h_file.toks) # HostN))
      => (h_ret = ReadStatus /\ h_cmp = 0)

\* C18: in both hosts, when an external tool returns non-zero the output
\* file is not read, nothing is compared, no PASS/FAIL summary is printed
\* and the process status is neither 0 nor 5.
C18_ToolFailureIsSetupFailure ==
    SomeToolFailed =>
        /\ pc = "h_exit"
        /\ ~h_read /\ h_got = <<>>
        /\ h_cmp = 0 /\ h_mism = 0 /\ h_diag = <<>>
        /\ h_summary = "none"
        /\ h_ret \notin {0, FailStatus}
        /\ h_prog = "cosim" => h_ret = ToolStatus

\* the simulator launched by the naive host returned non-zero
C18_Witness ==
    /\ pc = "h_exit" /\ h_prog = "naive" /\ ~h_ndebug
    /\ h_rcs = <<1>> /\ h_ret = AbortStatus /\ ~h_read

\* mismatching positions below limit that get a MISMATCH line: those with
\* fewer than DiagCap mismatching positions before them
DiagExpected(limit) ==
    { k \in MismatchAt :
        k < limit /\ Cardinality({j \in MismatchAt : j < k}) < DiagCap }

\* C19: the compare loops of both hosts compare all N positions; mism ends
\* as the number of positions where the value read differs from the
\* expected one; a line naming i is printed exactly for the first
\* min(mism, 10) such positions, in order; the run ends with FAIL and
\* status 5 if and only if mism > 0, else with PASS and status 0.
C19_MismatchesCounted ==
    /\ pc = "h_cmp" =>
          /\ h_cmp = h_i /\ h_ret = -1 /\ h_summary = "none"
          /\ h_mism = Cardinality({k \in MismatchAt : k < h_i})
          /\ {h_diag[k] : k \in 1 .. Len(h_diag)} = DiagExpected(h_i)
    /\ (pc = "h_exit" /\ h_summary # "none") =>
          /\ h_cmp = HostN /\ h_exp = HostExp
          /\ h_mism = Cardinality(MismatchAt)
          /\ Len(h_diag) = IF h_mism < DiagCap THEN h_mism ELSE DiagCap
          /\ {h_diag[k] : k \in 1 .. Len(h_diag)} = DiagExpected(HostN)
          /\ \A k \in 1 .. Len(h_diag) - 1 : h_diag[k] < h_diag[k + 1]
          /\ h_ret = FailStatus <=> h_mism > 0
          /\ h_ret = 0 <=> h_mism = 0
          /\ h_summary = "FAIL" <=> h_mism > 0
          /\ h_summary = "PASS" <=> h_mism = 0

\* every position is wrong: all N are compared and counted, the first ten
\* are printed
C19_Witness ==
    /\ pc = "h_exit" /\ h_prog = "cosim"
    /\ h_cmp = HostN /\ h_mism = HostN /\ HostN > DiagCap
    /\ h_diag = [k \in 1 .. DiagCap |-> k - 1]
    /\ h_summary = "FAIL" /\ h_ret = FailStatus

----------------------------------------------------------------------------
(* SpecSb: the randomized loop of tb_main.cpp around an adder that may
   misbehave: its registers take any values at a clock edge *)

\* values a misbehaving adder can show: any sum of two operands, and more
SbData == 0 .. (2 * SbMaxVal + 1)

\* entry of the randomized loop, the adder out of reset in any state
InitSb ==
    /\ clk = 0 /\ rst_n = TRUE
    /\ in_valid = FALSE /\ in_a = 0 /\ in_b = 0 /\ out_ready = FALSE
    /\ out_buf_valid \in BOOLEAN /\ out_buf_data \in SbData
    /\ spill_buf_valid \in BOOLEAN /\ spill_buf_data = 0
    /\ pc = "rnd"
    /\ TbIdle /\ LogIdle /\ HostIdle /\ SvIdle /\ TopIdle

\* lines 142-155: the inputs of the cycle are drawn and driven
SbDrive ==
    /\ pc = "rnd" /\ t < SbCycles
    /\ \E present \in BOOLEAN, ready \in BOOLEAN,
          x \in 0 .. SbMaxVal, y \in 0 .. SbMaxVal :
          /\ a' = x /\ b' = y
          /\ in_valid' = present
          /\ in_a' = x /\ in_b' = y
          /\ out_ready' = ready
    /\ rng' = Drawn(rng, DrawsPerCycle)
    /\ clk' = 0
    /\ NewCycle
    /\ pc' = "rnd_snap"
    /\ UNCHANGED << rst_n >> /\ UNCHANGED regVars
    /\ UNCHANGED << i, t, expq, errors, printed, pre_valid, pre_ready, pre_sum,
                    ret, expq_new, did_accept >>
    /\ UNCHANGED logVars /\ UNCHANGED hostVars /\ UNCHANGED svVars /\ UNCHANGED topVars

\* lines 168-169: the clock rises; the registers of the misbehaving adder
\* take any values
SbEdge ==
    /\ pc = "rnd_edge"
    /\ clk' = 1
    /\ out_buf_valid' \in BOOLEAN /\ out_buf_data' \in SbData
    /\ spill_buf_valid' \in BOOLEAN /\ spill_buf_data' = 0
    /\ edge_valid' = out_valid
    /\ edge_ready' = out_ready
    /\ edge_sum'   = out_sum
    /\ did_accept' = (in_valid /\ in_ready)
    /\ pc' = "rnd_check"
    /\ UNCHANGED << rst_n, in_valid, in_a, in_b, out_ready >>
    /\ UNCHANGED << i, t, expq, errors, printed, rng, pre_valid, pre_ready, pre_sum, a, b,
                    got, ret, expq_new, sb_log, fired >>
    /\ UNCHANGED logVars /\ UNCHANGED hostVars /\ UNCHANGED svVars /\ UNCHANGED topVars

NextSb == SbDrive \/ RndSnapshot \/ RndPush \/ SbEdge \/ RndCheck

SpecSb == InitSb /\ [][NextSb]_vars

\* C20: in the scoreboard of the randomized loop, a completion observed
\* while expq is empty adds exactly one to errors, leaves expq empty and
\* compares nothing; a popped value that differs from the observed one adds
\* exactly one to errors and removes exactly one entry; in both cases the
\* loop goes on to its next iteration and main has not returned.
C20_ErrorsNonFatal ==
    [][ (pc = "rnd_check" /\ pre_valid /\ pre_ready) =>
          /\ expq = <<>> =>
                /\ errors' = errors + 1
                /\ expq' = <<>>
                /\ got' = got
          /\ (expq # <<>> /\ pre_sum # Head(expq)) =>
                /\ errors' = errors + 1
                /\ expq' = Tail(expq)
                /\ got' = pre_sum
          /\ (expq # <<>> /\ pre_sum = Head(expq)) =>
                /\ errors' = errors
                /\ expq' = Tail(expq)
          /\ pc' = "rnd" /\ t' = t + 1 /\ ret' = -1 ]_vars

\* two iterations, an error in each: the second one a popped value that
\* differs from the observed 1, pushed in the same iteration; the loop is
\* at the head of its third iteration
C20_Witness ==
    /\ pc = "rnd" /\ t = 2 /\ errors = 2 /\ ret = -1
    /\ sb_log = <<"push", "pop">> /\ fired /\ got = 1 /\ a + b # 1
    /\ expq = <<>>

----------------------------------------------------------------------------
(* SpecDiag: the randomized loop of tb_main.cpp, long enough for more than
   DiagCap errors, around an adder that shows any output at any time *)

InitDiag ==
    /\ clk = 0 /\ rst_n = TRUE
    /\ in_valid = FALSE /\ in_a = 0 /\ in_b = 0 /\ out_ready = FALSE
    /\ out_buf_valid \in BOOLEAN /\ out_buf_data \in {0, 1}
    /\ spill_buf_valid = FALSE /\ spill_buf_data = 0
    /\ pc = "rnd"
    /\ TbIdle /\ LogIdle /\ HostIdle /\ SvIdle /\ TopIdle

\* lines 142-155 with both operands drawn as 0
DiagDrive ==
    /\ pc = "rnd" /\ t < DiagCycles
    /\ \E present \in BOOLEAN, ready \in BOOLEAN :
          /\ a' = 0 /\ b' = 0
          /\ in_valid' = present
          /\ in_a' = 0 /\ in_b' = 0
          /\ out_ready' = ready
    /\ rng' = Drawn(rng, DrawsPerCycle)
    /\ clk' = 0
    /\ NewCycle
    /\ pc' = "rnd_snap"
    /\ UNCHANGED << rst_n >> /\ UNCHANGED regVars
    /\ UNCHANGED << i, t, expq, errors, printed, pre_valid, pre_ready, pre_sum,
                    ret, expq_new, did_accept >>
    /\ UNCHANGED logVars /\ UNCHANGED hostVars /\ UNCHANGED svVars /\ UNCHANGED topVars

\* lines 168-169: the output register of the misbehaving adder takes any
\* value, right (0) or wrong (1), and its spill register is filled or not,
\* so that in_ready is high or low in the next cycle
DiagEdge ==
    /\ pc = "rnd_edge"
    /\ clk' = 1
    /\ out_buf_valid' \in BOOLEAN /\ out_buf_data' \in {0, 1}
    /\ spill_buf_valid' \in BOOLEAN /\ spill_buf_data' = 0
    /\ edge_valid' = out_valid
    /\ edge_ready' = out_ready
    /\ edge_sum'   = out_sum
    /\ did_accept' = (in_valid /\ in_ready)
    /\ pc' = "rnd_check"
    /\ UNCHANGED << rst_n, in_valid, in_a, in_b, out_ready >>
    /\ UNCHANGED << i, t, expq, errors, printed, rng, pre_valid, pre_ready, pre_sum,
                    a, b, got, ret, expq_new, sb_log, fired >>
    /\ UNCHANGED logVars /\ UNCHANGED hostVars /\ UNCHANGED svVars /\ UNCHANGED topVars

NextDiag == DiagDrive \/ RndSnapshot \/ RndPush \/ DiagEdge \/ RndCheck

SpecDiag == InitDiag /\ [][NextDiag]_vars

\* C21: over a whole run of tb_main.cpp at most 10 per-mismatch diagnostic
\* lines are printed, however many errors are counted.
C21_BoundedDiagnostics == printed <= DiagCap

----------------------------------------------------------------------------
(* More properties of main() in tb_main.cpp (Spec) *)

\* the phase of main() a position belongs to
Phase(p) ==
    CASE p \in {"reset_low", "reset_high", "reset_done"} -> 0
      [] p \in {"dir", "dir_push", "dir_edge", "dir_check"} -> 1
      [] p \in {"ddrain", "ddrain_edge", "ddrain_check"} -> 2
      [] p \in RndPcs -> 3
      [] p \in {"fdrain", "fdrain_edge", "fdrain_check"} -> 4
      [] OTHER -> 5

\* C22: rst_n is low with in_valid = 0 for 4 full clock cycles before any
\* stimulus; in_valid is never high while rst_n is low; all directed vectors
\* are driven and the directed drain has run to its end before the first
\* cycle of randomized traffic.
C22_PhaseOrdering ==
    /\ [](~rst_n => (~in_valid /\ Phase(pc) = 0))
    /\ [](Phase(pc) = 0 => (~rst_n \/ pc = "reset_done") /\ i <= ResetCycles)
    /\ [][ /\ Phase(pc') \in {Phase(pc), Phase(pc) + 1}
           /\ (pc = "reset_low" /\ pc' # pc) => (pc' = "reset_high" /\ clk' = 0)
           /\ (pc = "reset_high" /\ pc' # pc) => (clk' = 1 /\ i' = i + 1)
           /\ rst_n' # rst_n => (~rst_n /\ pc = "reset_done" /\ i = ResetCycles)
           /\ (Phase(pc) = 0 /\ Phase(pc') = 1) =>
                  (rst_n' /\ i = ResetCycles /\ ~in_valid')
           /\ (Phase(pc) = 1 /\ Phase(pc') = 2) => i = Len(dirv)
           /\ (pc = "dir" /\ pc' = "dir_push") =>
                  (in_valid' /\ in_a' = dirv[i + 1][1] /\ in_b' = dirv[i + 1][2])
           /\ (pc = "dir_check" /\ pc' = "dir") => i' = i + 1
           /\ (Phase(pc) = 2 /\ Phase(pc') = 3) =>
                  (pc = "ddrain" /\ ~DrainCond /\ t' = 0)
         ]_vars

\* the first randomized stimulus has just been driven, with an offer
C22_Witness ==
    /\ pc = "rnd_snap" /\ t = 0 /\ rst_n /\ in_valid /\ clk = 0

----------------------------------------------------------------------------
(* SpecTb: the file-based SystemVerilog testbenches adder_cosim_tb and
   rv_cosim_tb around adder_rv_simple.  One step is one clock edge: all
   processes woken by the edge read the values from before the edge (the
   adder's registers change by nonblocking assignment), then the registers
   and the nonblocking drives of send_item take effect. *)

SvResetEdges == 4    \* repeat (4) @(posedge clk);

\* a line of the input file: two hex numbers, or text that $fscanf cannot
\* convert (consumed by $fgets)
Pair(x, y) == [ok |-> TRUE, a |-> x, b |-> y]
Junk == [ok |-> FALSE, a |-> 0, b |-> 0]
SvVals == {0, mask}
SvLines == {Pair(x, y) : x \in SvVals, y \in SvVals} \cup {Junk}
SvFiles == UNION { [1 .. n -> SvLines] : n \in 0 .. SvMaxLines }

\* the lines left once the lines that do not convert are skipped
RECURSIVE SvSkip(_)
SvSkip(f) == IF f = <<>> \/ f[1].ok THEN f ELSE SvSkip(Tail(f))

\* sums of the records of a file, in file order
SvSums(f) ==
    LET recs == SelectSeq(f, LAMBDA l : l.ok)
    IN  [k \in 1 .. Len(recs) |-> (recs[k].a + recs[k].b) % Pow2(W)]

\* mutation: the hold loop is left when in_ready is low
SendItemDoneInverted == ~in_ready

\* do @(posedge clk); while (!in_ready);
SendItemDone == in_ready

\* mutation: a record is written at every edge with out_ready, valid or not
ConsumerFiresAlways ==
    /\ (sv_tb = "adder_cosim_tb" => rst_n)
    /\ (sv_tb = "rv_cosim_tb" => sv_rep >= 1)
    /\ out_ready

\* if (rst_n && out_valid && out_ready)   (adder_cosim_tb)
\* if (out_valid && out_ready)            (rv_cosim_tb; before the first
\* clock edge in reset out_valid is X and the branch is not taken)
ConsumerFires ==
    /\ (sv_tb = "adder_cosim_tb" => rst_n)
    /\ (sv_tb = "rv_cosim_tb" => sv_rep >= 1)
    /\ out_valid /\ out_ready

\* mutation: the drain waits for one record more than was sent
WaitCondOneMore(written, sent) == written = sent + 1

\* wait (n_written == n_sent);
WaitCond(written, sent) == written = sent

\* while (!$feof(fin)) { r = $fscanf(...); if (r == 2) send_item(a, b) ...
\* else $fgets }  up to the next send_item call, or, at the end of the
\* file, $fclose(fin) and the wait statement
SvReadLoop(written, sent) ==
    LET rest == SvSkip(sv_fin)
    IN  IF rest # <<>>
        THEN /\ sv_a' = rest[1].a /\ sv_b' = rest[1].b
             /\ sv_fin' = Tail(rest)
             /\ pc' = "sv_drive"
        ELSE /\ sv_fin' = <<>>
             /\ UNCHANGED << sv_a, sv_b >>
             /\ pc' = IF WaitCond(written, sent) THEN "sv_last" ELSE "sv_drain"

\* always #5 clk = ~clk, rising: the adder's always_ff and the consumer's
\* always block run on the values from before the edge
SvClockRise ==
    /\ clk = 0 /\ clk' = 1
    /\ Posedge
    /\ IF ConsumerFires
       THEN /\ sv_fout' = Append(sv_fout, out_sum)
            /\ n_written' = n_written + 1
       ELSE UNCHANGED << sv_fout, n_written >>
    /\ acc_log' = IF rst_n /\ in_valid /\ in_ready
                  THEN Append(acc_log, (in_a + in_b) % Pow2(W))
                  ELSE acc_log
    /\ UNCHANGED << sent_log, quiet, held, held_done, all_ready >>
    /\ UNCHANGED << in_valid, in_a, in_b, out_ready >>
    /\ UNCHANGED tbVars /\ UNCHANGED hostVars /\ UNCHANGED topVars
    /\ UNCHANGED << sv_tb, sv_file >>

\* always #5 clk = ~clk, falling
SvClockFall ==
    /\ clk = 1 /\ clk' = 0
    /\ UNCHANGED << rst_n, out_ready >> /\ UNCHANGED regVars
    /\ UNCHANGED tbVars /\ UNCHANGED logVars /\ UNCHANGED hostVars /\ UNCHANGED topVars
    /\ UNCHANGED << sv_fout, n_written, sv_rep, sv_tb, sv_file >>

\* time 0: clk = 0, rst_n = 0, the initial block has set its defaults, the
\* adder's registers hold X; the input file is any file
InitTb ==
    /\ clk = 0 /\ rst_n = FALSE
    /\ in_valid = FALSE /\ in_a = 0 /\ in_b = 0 /\ out_ready = TRUE
    /\ out_buf_valid \in BOOLEAN /\ spill_buf_valid \in BOOLEAN
    /\ out_buf_data = 0 /\ spill_buf_data = 0
    /\ pc = "sv_reset"
    /\ TbIdle /\ LogIdle /\ HostIdle /\ TopIdle
    /\ sv_tb \in {"adder_cosim_tb", "rv_cosim_tb"}
    /\ sv_file \in SvFiles
    /\ sv_fin = sv_file /\ sv_fout = <<>> /\ n_sent = 0 /\ n_written = 0
    /\ sv_a = 0 /\ sv_b = 0 /\ sv_rep = 0

\* repeat (4) @(posedge clk); rst_n = 1'b1;
\* At the fourth edge rst_n rises in the same time step as the adder's
\* always_ff runs; the registers are in their reset state and in_valid is 0,
\* so the adder's registers end the same whichever runs first.
SvResetEdge ==
    /\ pc = "sv_reset"
    /\ SvClockRise
    /\ sv_rep' = sv_rep + 1
    /\ IF sv_rep + 1 = SvResetEdges
       THEN rst_n' = TRUE /\ pc' = "sv_post_reset"
       ELSE UNCHANGED << rst_n, pc >>
    /\ UNCHANGED << sv_fin, sv_a, sv_b, n_sent >>

\* @(posedge clk); fin = $fopen(...); if (fin == 0) $fatal; fout = ...;
\* then the read loop up to its first send_item call
SvOpenFiles ==
    /\ pc = "sv_post_reset"
    /\ SvClockRise
    /\ \E ok \in BOOLEAN :
         IF ok THEN SvReadLoop(n_written', n_sent)
               ELSE pc' = "sv_fatal" /\ UNCHANGED << sv_fin, sv_a, sv_b >>
    /\ UNCHANGED << rst_n, n_sent, sv_rep >>

\* send_item: @(negedge clk); in_a <= a; in_b <= b; in_valid <= 1'b1;
SvDrive ==
    /\ pc = "sv_drive"
    /\ SvClockFall
    /\ in_a' = sv_a /\ in_b' = sv_b /\ in_valid' = TRUE
    /\ pc' = "sv_wait"
    /\ UNCHANGED << sv_fin, sv_a, sv_b, n_sent >>

\* send_item: do @(posedge clk); while (!in_ready);
SvWaitAccept ==
    /\ pc = "sv_wait"
    /\ SvClockRise
    /\ pc' = IF SendItemDone THEN "sv_deassert" ELSE "sv_wait"
    /\ UNCHANGED << rst_n, sv_fin, sv_a, sv_b, n_sent, sv_rep >>

\* send_item: @(negedge clk); in_valid <= 1'b0;  back in the initial block:
\* n_sent++; and the read loop up to its next send_item call
SvDeassert ==
    /\ pc = "sv_deassert"
    /\ SvClockFall
    /\ in_valid' = FALSE
    /\ n_sent' = n_sent + 1
    /\ SvReadLoop(n_written, n_sent + 1)
    /\ UNCHANGED << in_a, in_b >>

\* a rising edge while the initial block waits for a falling edge
SvPosedgeIdle ==
    /\ pc = "sv_drive"
    /\ SvClockRise
    /\ UNCHANGED << rst_n, pc, sv_fin, sv_a, sv_b, n_sent, sv_rep >>

\* a falling edge while the initial block waits for a rising edge or for
\* n_written
SvNegedgeIdle ==
    /\ pc \in {"sv_reset", "sv_post_reset", "sv_wait", "sv_drain", "sv_last"}
    /\ SvClockFall
    /\ UNCHANGED << in_valid, in_a, in_b, pc, sv_fin, sv_a, sv_b, n_sent >>

\* wait (n_written == n_sent);  woken when the consumer counts a record
SvDrain ==
    /\ pc = "sv_drain"
    /\ SvClockRise
    /\ pc' = IF WaitCond(n_written', n_sent) THEN "sv_last" ELSE "sv_drain"
    /\ UNCHANGED << rst_n, sv_fin, sv_a, sv_b, n_sent, sv_rep >>

\* @(posedge clk); $display; $fclose(fout); $finish;
SvFinish ==
    /\ pc = "sv_last"
    /\ SvClockRise
    /\ pc' = "sv_finished"
    /\ UNCHANGED << rst_n, sv_fin, sv_a, sv_b, n_sent, sv_rep >>

NextTb ==
    \/ SvResetEdge \/ SvOpenFiles \/ SvDrive \/ SvWaitAccept \/ SvDeassert
    \/ SvPosedgeIdle \/ SvNegedgeIdle \/ SvDrain \/ SvFinish

SpecTb == InitTb /\ [][NextTb]_vars

\* the simulator keeps the clock running until $finish or $fatal
SpecTbFair == SpecTb /\ WF_vars(NextTb)

\* a send_item call has driven its record and has not yet de-asserted
SvInCall == pc \in {"sv_wait", "sv_deassert"}

\* C23: send_item keeps in_valid high and in_a, in_b unchanged from the
\* falling edge where they are driven until a rising edge at which in_ready
\* is seen high, and de-asserts in_valid only at the following falling
\* edge; each record is accepted by the adder exactly once.
C23_SendItemHolds ==
    /\ [](SvInCall => (in_valid /\ in_a = sv_a /\ in_b = sv_b))
    /\ [](pc = "sv_wait" => Len(acc_log) = n_sent)
    /\ [](pc = "sv_deassert" =>
             /\ clk = 1
             /\ Len(acc_log) = n_sent + 1
             /\ acc_log[n_sent + 1] = (sv_a + sv_b) % Pow2(W))
    /\ [](~SvInCall => (~in_valid /\ Len(acc_log) = n_sent))
    /\ [](acc_log = SubSeq(SvSums(sv_file), 1, Len(acc_log)))
    /\ [](pc = "sv_finished" => acc_log = SvSums(sv_file))
    /\ [][ /\ (in_valid' # in_valid \/ in_a' # in_a \/ in_b' # in_b)
                 => (clk = 1 /\ clk' = 0)
           /\ (~in_valid /\ in_valid') => (pc = "sv_drive" /\ pc' = "sv_wait")
           /\ (in_valid /\ ~in_valid') => pc = "sv_deassert"
           /\ (pc = "sv_wait" /\ clk' = 1) =>
                 pc' = (IF in_ready THEN "sv_deassert" ELSE "sv_wait")
         ]_vars

\* the second record of a file has been accepted, once, and send_item is
\* about to de-assert in_valid
C23_Witness ==
    /\ pc = "sv_deassert" /\ in_valid /\ n_sent = 1 /\ Len(acc_log) = 2
    /\ in_a = mask /\ in_b = mask /\ acc_log[2] = mask - 1

\* C24: in adder_cosim_tb the consumer writes exactly one record at each
\* rising edge where out_valid && out_ready outside reset, and at no other
\* time; $finish is reached only with n_written == n_sent and nothing left
\* in the adder; the output file then holds one sum per accepted input
\* record, in acceptance order.
C24_OneRecordPerTransfer ==
    /\ [](sv_tb = "adder_cosim_tb" =>
             /\ n_written = Len(sv_fout)
             /\ Len(sv_fout) <= Len(acc_log)
             /\ sv_fout = SubSeq(acc_log, 1, Len(sv_fout))
             /\ pc \in {"sv_last", "sv_finished"} =>
                   /\ n_written = n_sent
                   /\ ~out_valid
                   /\ sv_fout = acc_log
                   /\ sv_fout = SvSums(sv_file))
    /\ [][ sv_tb = "adder_cosim_tb" =>
             /\ (clk = 0 /\ clk' = 1 /\ rst_n /\ out_valid /\ out_ready) =>
                   /\ sv_fout' = Append(sv_fout, out_sum)
                   /\ n_written' = n_written + 1
             /\ ~(clk = 0 /\ clk' = 1 /\ rst_n /\ out_valid /\ out_ready) =>
                   /\ sv_fout' = sv_fout
                   /\ n_written' = n_written
         ]_vars

\* a file of two records and a line that does not convert has been
\* processed to $finish
C24_Witness ==
    /\ pc = "sv_finished" /\ sv_tb = "adder_cosim_tb"
    /\ Len(sv_file) = 3 /\ n_sent = 2 /\ n_written = 2
    /\ sv_fout = <<mask, mask - 1>>

\* C25: with out_ready = 1, once the files are open adder_cosim_tb reaches
\* $finish for every input file: every send_item call sees in_ready, and
\* wait (n_written == n_sent) is satisfied.
C25_Terminates ==
    /\ [](sv_tb = "adder_cosim_tb" => (pc # "sv_reset" => out_ready))
    /\ (sv_tb = "adder_cosim_tb" /\ pc = "sv_wait") ~> (pc = "sv_deassert")
    /\ (sv_tb = "adder_cosim_tb" /\ pc = "sv_drain") ~> (pc = "sv_last")
    /\ (sv_tb = "adder_cosim_tb" /\ pc = "sv_post_reset")
          ~> (pc \in {"sv_finished", "sv_fatal"})
    /\ (sv_tb = "adder_cosim_tb"
          /\ pc \in {"sv_drive", "sv_wait", "sv_deassert", "sv_drain", "sv_last"})
          ~> (pc = "sv_finished")

\* the longest input file has been sent and written, $finish is reached
C25_Witness ==
    /\ pc = "sv_finished" /\ sv_tb = "adder_cosim_tb"
    /\ n_sent = SvMaxLines /\ n_written = SvMaxLines /\ sv_fin = <<>>

\* C26: after reset the adder holds at most 2 entries, the accepted inputs
\* not yet transferred; in_ready is low exactly when it holds 2; in_ready
\* depends on the registers only: while no clock edge occurs (the inputs,
\* out_ready among them, change) in_ready does not change.
C26_CapacityAndBackpressure ==
    /\ [](rst_n =>
             /\ Len(DutContents) <= 2
             /\ Len(acc_log) - Len(sent_log) = Len(DutContents)
             /\ ~in_ready <=> Len(DutContents) = 2
             /\ spill_buf_valid => out_buf_valid)
    /\ [][ (pc = "d_drive" /\ rst_n) => in_ready' = in_ready ]_vars

\* the adder is full and the consumer has just raised out_ready: in_ready
\* is still low in this cycle
C26_Witness ==
    /\ pc = "d_edge" /\ rst_n /\ out_buf_valid /\ spill_buf_valid
    /\ out_ready /\ in_valid /\ ~in_ready
    /\ Len(acc_log) = 2 /\ sent_log = <<>>

\* C27: when out_valid is high and out_ready is low at a rising edge,
\* out_valid stays high and out_sum keeps its value after the edge,
\* whatever in_valid, in_a, in_b are.
C27_OutputHeld ==
    [][ (pc = "d_edge" /\ rst_n /\ out_valid /\ ~out_ready)
            => (out_valid' /\ out_sum' = out_sum) ]_vars

\* two inputs were accepted and none transferred: the second one arrived
\* at an edge where the output was held, and the first is still shown
C27_Witness ==
    /\ pc = "d_drive" /\ rst_n /\ out_valid /\ ~out_ready
    /\ Len(acc_log) = 2 /\ sent_log = <<>>
    /\ out_sum = acc_log[1] /\ acc_log[2] # acc_log[1]
    /\ spill_buf_valid /\ spill_buf_data = acc_log[2]


----------------------------------------------------------------------------
(* Drive and sample phases of the randomized loop of tb_main.cpp (Spec) *)

\* what main() writes to the adder besides the clock
DutInputs == << in_valid, in_a, in_b, out_ready >>

\* C29: in a cycle of the randomized loop in_valid, in_a, in_b and out_ready
\* are written only in the drive step, with the clock low and before the
\* snapshot; from the snapshot to the rising edge they and the adder's
\* outputs keep their values, so the snapshot used by the check is what the
\* adder showed and saw at that edge.
C29_DrivePhaseDiscipline ==
    /\ [][ (pc \in RndPcs /\ DutInputs' # DutInputs) =>
               (pc = "rnd" /\ clk' = 0 /\ pc' = "rnd_snap") ]_vars
    /\ [][ (pc = "rnd_edge" /\ pc' # pc) =>
               (clk = 0 /\ clk' = 1 /\ DutInputs' = DutInputs) ]_vars
    /\ [](pc \in {"rnd_push", "rnd_edge"} =>
               (pre_valid = out_valid /\ pre_ready = out_ready /\ pre_sum = out_sum))
    /\ [](pc = "rnd_check" =>
               (pre_valid = edge_valid /\ pre_ready = edge_ready /\ pre_sum = edge_sum))

\* after an edge that popped one sum and accepted a pair the adder shows
\* another sum, the snapshot still holds the one popped
C29_Witness ==
    /\ pc = "rnd_check" /\ clk = 1
    /\ pre_valid /\ pre_ready /\ edge_valid /\ edge_ready
    /\ did_accept /\ out_valid
    /\ out_sum # pre_sum /\ pre_sum = edge_sum

\* C30: when main() returns 0 (TEST PASS) every accepted pair had its
\* expected sum popped and compared: expq is empty at exit.
C30_PassIsSound == (pc = "done" /\ ret = PassStatus) => expq = <<>>

----------------------------------------------------------------------------
(* The scoreboard of tb_main.cpp against the contents of the adder (Spec) *)

\* C31: in the randomized loop, after the bookkeeping of each edge expq read
\* front to back is the sequence of sums the adder holds: out_buf_data if
\* out_buf_valid, then spill_buf_data if spill_buf_valid.
C31_ScoreboardMirrorsDut == pc = "rnd" => expq = DutContents

\* two different sums are held, the older in the output buffer, and the
\* queue lists them in that order
C31_Witness ==
    /\ pc = "rnd" /\ t >= 2
    /\ out_buf_valid /\ spill_buf_valid
    /\ out_buf_data # spill_buf_data
    /\ expq = << out_buf_data, spill_buf_data >>

\* the entries of q whose flag in f is keep, in order
RECURSIVE QSelect(_, _, _)
QSelect(q, f, keep) ==
    IF q = << >> THEN << >>
    ELSE (IF Head(f) = keep THEN << Head(q) >> ELSE << >>)
             \o QSelect(Tail(q), Tail(f), keep)

\* a scoreboard that handles the completion (v, r, s) first and the
\* acceptance second: queue q and error count e after one edge, new being
\* the expectations of the pairs accepted at it
PopFirstThenPush(q, e, v, r, s, new) ==
    LET popped == IF v /\ r
                  THEN (IF q = << >> THEN [q |-> q, e |-> e + 1]
                        ELSE [q |-> QPop(q),
                              e |-> IF s # QFront(q) THEN e + 1 ELSE e])
                  ELSE [q |-> q, e |-> e]
    IN  [q |-> IF new = << >> THEN popped.q ELSE QPush(popped.q, new[1]),
         e |-> popped.e]

\* C32: against adder_rv_simple the order of the randomized loop (push
\* before the edge, pop on the pre-edge completion after it) gives, at every
\* edge, the queue and the error count that a scoreboard handling the
\* completion first and the acceptance second gives from the same state; the
\* two start equal, so they are equal after every edge.
C32_OrderEquivalent ==
    [][ (pc = "rnd_check" /\ pc' = "rnd") =>
            LET alt == PopFirstThenPush(QSelect(expq, expq_new, FALSE), errors,
                                        pre_valid, pre_ready, pre_sum,
                                        QSelect(expq, expq_new, TRUE))
            IN  expq' = alt.q /\ errors' = alt.e ]_vars

\* an edge with both an acceptance and a completion: the sum taken was
\* popped, the one accepted stays, no error
C32_Witness ==
    /\ pc = "rnd" /\ sb_log = << "push", "pop" >> /\ did_accept /\ fired
    /\ Len(expq) = 1 /\ expq[1] # got
    /\ errors = 0

\* C33: when the randomized loop starts, after the directed loop and the
\* directed drain, expq is empty, errors is 0 and the adder holds no entry:
\* out_valid is low and the spill buffer is empty.
C33_CleanStart ==
    (pc = "rnd" /\ t = 0) =>
        /\ expq = << >> /\ errors = 0
        /\ ~out_valid /\ ~spill_buf_valid

\* the loop is entered with reset released, all directed vectors driven and
\* the last directed sum drained
C33_Witness ==
    /\ pc = "rnd" /\ t = 0 /\ rst_n /\ clk = 1
    /\ expq = << >> /\ errors = 0 /\ DutContents = << >>
    /\ in_a = mask /\ in_b = mask /\ ~in_valid /\ out_ready

----------------------------------------------------------------------------
(* More properties of adder_rv_simple alone (SpecDut) *)

\* C34: at a rising edge out of reset the adder stores a new sum exactly
\* when in_valid && in_ready held before the edge.  Its contents after the
\* edge are those before it, less the oldest if it was transferred, plus one
\* copy of the new sum at the back: in the output buffer when that is empty
\* or being emptied, else in the spill buffer; an entry that was not
\* transferred keeps its value.
C34_StoresOncePerAccept ==
    [][ (pc = "d_edge" /\ rst_n) =>
            LET acc  == in_valid /\ in_ready
                xfer == out_valid /\ out_ready
                s    == AdderSum(in_a, in_b)
                kept == IF xfer THEN Tail(DutContents) ELSE DutContents
            IN  /\ DutContents' = (IF acc THEN Append(kept, s) ELSE kept)
                /\ acc => IF out_buf_ready
                          THEN out_buf_valid' /\ out_buf_data' = s
                               /\ ~spill_buf_valid'
                          ELSE spill_buf_valid' /\ spill_buf_data' = s
                               /\ out_buf_valid' /\ out_buf_data' = out_buf_data
                /\ (out_valid /\ ~xfer) => (out_buf_valid' /\ out_buf_data' = out_buf_data)
                /\ (spill_buf_valid /\ ~out_buf_ready) =>
                       (spill_buf_valid' /\ spill_buf_data' = spill_buf_data)
      ]_vars

\* a sum went to the spill buffer behind a different, stalled output
C34_Witness ==
    /\ pc = "d_drive" /\ rst_n /\ clk = 1
    /\ in_valid /\ ~out_ready
    /\ out_buf_valid /\ spill_buf_valid
    /\ spill_buf_data = AdderSum(in_a, in_b) /\ out_buf_data # spill_buf_data
    /\ Len(acc_log) = 2 /\ sent_log = << >>

\* C35: in every state of the adder after reset, spill_buf_valid implies
\* out_buf_valid: the spill buffer is never occupied while the output
\* buffer is empty.
C35_SpillBehindOutput == rst_n => (spill_buf_valid => out_buf_valid)

\* the spill buffer is occupied after one sum was already transferred, and
\* the consumer is about to take the next
C35_Witness ==
    /\ pc = "d_edge" /\ rst_n /\ spill_buf_valid /\ out_buf_valid
    /\ out_ready /\ Len(sent_log) = 1 /\ Len(acc_log) = 3

\* C36: the spill buffer is used only when the output buffer is busy:
\* spill_buf_valid rises at an edge only if out_buf_valid && !out_ready held
\* before it.  While out_ready has been high in every cycle since reset,
\* spill_buf_valid is low, in_ready is high, and an input offered at an edge
\* is accepted at that edge.
C36_SpillOnlyWhenBusy ==
    /\ [][ (pc = "d_edge" /\ rst_n /\ ~spill_buf_valid /\ spill_buf_valid') =>
               (out_buf_valid /\ ~out_ready /\ in_valid) ]_vars
    /\ []((rst_n /\ all_ready) => (~spill_buf_valid /\ in_ready))
    /\ [][ (pc = "d_edge" /\ rst_n /\ all_ready /\ in_valid) =>
               /\ acc_log' = Append(acc_log, AdderSum(in_a, in_b))
               /\ out_buf_valid' /\ out_buf_data' = AdderSum(in_a, in_b)
               /\ ~spill_buf_valid' ]_vars

\* three inputs were offered and accepted back to back with the consumer
\* always ready: two sums are out, the third is in the output buffer
C36_Witness ==
    /\ pc = "d_drive" /\ rst_n /\ all_ready /\ clk = 1
    /\ Len(acc_log) = 3 /\ Len(sent_log) = 2
    /\ out_buf_valid /\ ~spill_buf_valid /\ in_ready
    /\ out_buf_data = acc_log[3]

----------------------------------------------------------------------------
(* SpecRepro: the two stimulus generators.  A run is either one of the
   file-based hosts or main() of tb_main.cpp with the values the generator
   std::mt19937_64 rng(1) really returns. *)

\* what the first calls of rng() return after std::mt19937_64 rng(1), each
\* as << value % 100, value & 0xFFFF >>: the two residues the program uses
MtTable ==
    << <<28, 28520>>, <<62, 64078>>, <<30, 17818>>, <<46, 49294>>,
       <<84, 26424>>, <<9, 26697>>, <<28, 53684>>, <<65, 19209>>,
       <<48, 24832>>, <<24, 32784>>, <<76, 61184>>, <<63, 13083>>,
       <<77, 7781>>, <<7, 23139>>, <<80, 988>>, <<33, 20889>>,
       <<69, 30401>>, <<10, 2234>>, <<23, 38883>>, <<0, 52200>>,
       <<83, 28623>>, <<67, 48999>>, <<88, 16708>>, <<67, 49499>>,
       <<27, 12899>>, <<94, 3354>>, <<39, 27723>>, <<77, 12337>>,
       <<0, 11032>>, <<30, 42442>>, <<3, 34983>>, <<65, 48309>>,
       <<37, 60289>>, <<28, 42772>>, <<46, 50158>>, <<4, 18620>>,
       <<54, 29970>>, <<91, 3603>>, <<29, 38533>>, <<20, 41468>>,
       <<84, 31888>>, <<28, 19760>>, <<24, 13680>>, <<57, 13181>>,
       <<99, 64763>>, <<26, 15338>>, <<99, 52079>>, <<19, 36463>> >>

PresentPct == 70    \* rand_bit(70)
ReadyPct   == 60    \* rand_bit(60)

\* the k-th value generator g returns next
RngOut(g, k) == MtTable[g.draws + k]

\* auto rand_bit = [&](int p) { return (int)(rng() % 100) < p; };
rand_bit(g, k, p) == RngOut(g, k)[1] < p

\* rng() & mask
RngWord(g, k) == RngOut(g, k)[2] % Pow2(W)

\* lines 142-155 of tb_main.cpp with the generator's values
RngDrive ==
    /\ pc = "rnd" /\ t < cycles
    /\ LET present == rand_bit(rng, 1, PresentPct)
           ready   == rand_bit(rng, 2, ReadyPct)
           x       == RngWord(rng, 3)
           y       == RngWord(rng, 4)
       IN  /\ a' = x /\ b' = y
           /\ in_valid' = present
           /\ in_a' = x /\ in_b' = y
           /\ out_ready' = ready
    /\ rng' = Drawn(rng, DrawsPerCycle)
    /\ clk' = 0
    /\ NewCycle
    /\ pc' = "rnd_snap"
    /\ UNCHANGED << rst_n >> /\ UNCHANGED regVars
    /\ UNCHANGED << i, t, expq, errors, printed, pre_valid, pre_ready, pre_sum,
                    ret, expq_new, did_accept >>
    /\ UNCHANGED logVars /\ UNCHANGED hostVars /\ UNCHANGED svVars /\ UNCHANGED topVars

InitRepro == Init \/ InitHost

NextRepro ==
    \/ ResetLow \/ ResetHigh \/ ResetRelease
    \/ DirDrive \/ DirPush \/ DirEdge \/ DirCheck \/ DirExit
    \/ DirDrainDrive \/ DirDrainEdge \/ DirDrainCheck \/ DirDrainExit
    \/ RngDrive \/ RndSnapshot \/ RndPush \/ RndEdge \/ RndCheck \/ RndExit
    \/ FinDrainDrive \/ FinDrainEdge \/ FinDrainCheck \/ Exit
    \/ CosimStimulus \/ CosimWrite \/ CosimVlib \/ CosimVlog \/ CosimVsim
    \/ CosimRead \/ CosimLength \/ CosimCompare \/ CosimVerdict
    \/ NaiveSetup \/ NaiveWrite \/ NaiveLaunch \/ NaiveRead
    \/ NaiveCompare \/ NaiveVerdict

SpecRepro == InitRepro /\ [][NextRepro]_vars

\* the n-th value of s := s * 1664525 + 1013904223 started at COSIM_SEED
RECURSIVE LcgIter(_)
LcgIter(n) == IF n = 0 THEN COSIM_SEED ELSE Lcg(LcgIter(n - 1))

\* C28: the stimulus is a function of the seed alone.  In cosim_tb.cpp the
\* N pairs are (s_1, s_2), (s_3, s_4), ... of the recurrence started at
\* COSIM_SEED, whatever the tools and the output file do afterwards.  In
\* tb_main.cpp the generator keeps seed 1, has given 4 values per cycle
\* begun, and the offer, ready and operands of cycle t are the values
\* 4t+1 .. 4t+4 of that one sequence, whatever the adder powered up with.
C28_StimulusReproducible ==
    /\ (h_prog = "cosim" /\ pc # "h_start") =>
           h_in = [k \in 1 .. HostN |-> << LcgIter(2 * k - 1), LcgIter(2 * k) >>]
    /\ rng.seed = RngSeed
    /\ pc = "rnd" => rng.draws = DrawsPerCycle * t
    /\ pc \in RndPcs \ {"rnd"} =>
           LET n == DrawsPerCycle * t
           IN  /\ rng.draws = n + DrawsPerCycle
               /\ in_valid  = (MtTable[n + 1][1] < PresentPct)
               /\ out_ready = (MtTable[n + 2][1] < ReadyPct)
               /\ in_a = MtTable[n + 3][2] % Pow2(W)
               /\ in_b = MtTable[n + 4][2] % Pow2(W)

\* the third randomized cycle offers 61184 & mask and 13083 & mask with the
\* consumer ready
C28_Witness ==
    /\ pc = "rnd_snap" /\ t = 2 /\ rng.draws = 3 * DrawsPerCycle
    /\ in_valid /\ out_ready
    /\ in_a = MtTable[11][2] % Pow2(W) /\ in_b = MtTable[12][2] % Pow2(W)
    /\ a = in_a /\ b = in_b

----------------------------------------------------------------------------
(* SpecTop: tb_top around the naive dut (y = x * x).  One step is one clock
   edge with every process it wakes.  The driver, the monitor and the guard
   exchange in_valid, dr_st, sent_cnt and recv_cnt through nonblocking
   assignments, so each reads the values from before the edge; what depends
   on the order of the processes is the file: $feof(fin) as the guard reads
   it, and what was read and written when $finish stops the run. *)

DATAW         == 16
TopResetEdges == 5     \* repeat (5) @(posedge clk);

\* a token of the input file: a decimal number, or text %d cannot convert
Num(v)   == [ok |-> TRUE, v |-> v]
TopJunk  == [ok |-> FALSE, v |-> 0]
TopVals  == {-3, 2}
TopLines == {Num(v) : v \in TopVals} \cup {TopJunk}
TopFiles == UNION { [1 .. n -> TopLines] : n \in 0 .. TopMaxLines }

\* the weights of the four bytes of a 2*DATAW-bit word, lowest first
ByteWeight == << 1, 256, 65536, 16777216 >>

\* the four bytes of the two's complement 2*DATAW-bit word of v, lowest first
Bytes(v) == [k \in 1 .. 4 |-> (v \div ByteWeight[k]) % 256]

\* the signed value of a 2*DATAW-bit word given by its bytes
ToSigned(r) ==
    (IF r[4] >= 128 THEN r[4] - 256 ELSE r[4]) * ByteWeight[4]
        + r[3] * ByteWeight[3] + r[2] * ByteWeight[2] + r[1]

\* the low 2*DATAW bits of the product of two words
MulBytes(x, y) ==
    LET col(k) == IF k = 1 THEN x[1] * y[1]
                  ELSE IF k = 2 THEN x[1] * y[2] + x[2] * y[1]
                  ELSE IF k = 3 THEN x[1] * y[3] + x[2] * y[2] + x[3] * y[1]
                  ELSE x[1] * y[4] + x[2] * y[3] + x[3] * y[2] + x[4] * y[1]
        s1 == col(1)
        s2 == col(2) + s1 \div 256
        s3 == col(3) + s2 \div 256
        s4 == col(4) + s3 \div 256
    IN  << s1 % 256, s2 % 256, s3 % 256, s4 % 256 >>

\* mutation: the product is kept in DATAW bits and sign-extended
DutSquareNarrow(x) ==
    LET m == (x * x) % Pow2(DATAW)
    IN  IF m >= Pow2(DATAW - 1) THEN m - Pow2(DATAW) ELSE m

\* out_data <= in_data * in_data;  both operands are sign-extended to the
\* width of out_data, the product is taken in that width
DutSquare(x) ==
    LET w == Bytes(x)
    IN  ToSigned(MulBytes(w, w))

\* in_data <= sample;  the integer is cut to DATAW bits, signed
Trunc16(v) ==
    LET m == v % Pow2(DATAW)
    IN  IF m >= Pow2(DATAW - 1) THEN m - Pow2(DATAW) ELSE m

\* assign in_ready = rst_n;
DutInReady == rst_n

\* always @(posedge clk or negedge rst_n) of dut: out_valid and out_data
\* after a rising edge
DutAfterEdge ==
    IF ~rst_n THEN [v |-> FALSE, d |-> 0]
    ELSE IF in_valid /\ DutInReady THEN [v |-> TRUE, d |-> DutSquare(in_data)]
    ELSE IF dut_out_valid /\ out_ready THEN [v |-> FALSE, d |-> out_data]
    ELSE [v |-> dut_out_valid, d |-> out_data]

\* mutation: the guard does not ask for a sample to have been sent
FinishDoneAnyCount(eof, valid, recv, sent) == (eof /\ ~valid) /\ recv = sent

\* inputs_done = $feof(fin) && !in_valid;
\* if (inputs_done && (recv_cnt == sent_cnt) && (sent_cnt != 0))
FinishDone(eof, valid, recv, sent) ==
    (eof /\ ~valid) /\ recv = sent /\ sent # 0

\* time 0: the initial blocks have set their defaults, dut's registers hold
\* X, the input file is any file
InitTop ==
    /\ clk = 0 /\ rst_n = FALSE
    /\ in_valid = FALSE /\ in_a = 0 /\ in_b = 0 /\ out_ready = TRUE
    /\ out_buf_valid = FALSE /\ out_buf_data = 0
    /\ spill_buf_valid = FALSE /\ spill_buf_data = 0
    /\ pc = "top_reset"
    /\ TbIdle /\ LogIdle /\ HostIdle /\ SvIdle
    /\ in_data = 0 /\ dut_out_valid \in BOOLEAN /\ out_data = 0
    /\ dr_st = "DR_IDLE" /\ sent_cnt = 0 /\ recv_cnt = 0
    /\ top_file \in TopFiles
    /\ fin = top_file /\ fin_eof = FALSE /\ fout = <<>>
    /\ top_rep = 0 /\ top_ticks = 0 /\ top_end = "none"

\* what no step of tb_top touches
TopOnly ==
    /\ UNCHANGED << in_a, in_b, out_ready >> /\ UNCHANGED regVars
    /\ UNCHANGED tbVars /\ UNCHANGED logVars /\ UNCHANGED hostVars
    /\ UNCHANGED svVars /\ UNCHANGED top_file

\* always #5 clk = ~clk, falling: no process waits for it
TopNegedge ==
    /\ pc \in {"top_reset", "top_run"}
    /\ clk = 1 /\ clk' = 0
    /\ UNCHANGED << pc, rst_n, in_valid >>
    /\ UNCHANGED << in_data, dut_out_valid, out_data, dr_st, sent_cnt, recv_cnt,
                    fin, fin_eof, fout, top_rep, top_ticks, top_end >>
    /\ TopOnly

\* repeat (5) @(posedge clk); rst_n = 1;  the processes waiting for
\* @(posedge rst_n) wake in the same time step: the files are opened
\* (fin == 0 or fout == 0: $finish), start_time = $time.  dut is in its
\* reset state and in_valid is 0, so its registers end the same whether its
\* always block saw rst_n low or high at the fifth edge.
TopResetEdge ==
    /\ pc = "top_reset" /\ clk = 0
    /\ clk' = 1
    /\ dut_out_valid' = DutAfterEdge.v /\ out_data' = DutAfterEdge.d
    /\ top_rep' = top_rep + 1
    /\ IF top_rep + 1 = TopResetEdges
       THEN /\ rst_n' = TRUE
            /\ \E opened \in BOOLEAN :
                  IF opened
                  THEN pc' = "top_run" /\ top_end' = top_end
                  ELSE pc' = "top_finished" /\ top_end' = "ERROR"
       ELSE UNCHANGED << rst_n, pc, top_end >>
    /\ UNCHANGED << in_valid, in_data, dr_st, sent_cnt, recv_cnt,
                    fin, fin_eof, fout, top_ticks >>
    /\ TopOnly

\* a rising edge after reset: driver, monitor, finish_guard and dut.
\* drv_first / mon_first: the driver / the monitor runs before the guard.
\* eof_last: whether reading the last number leaves $feof(fin) set (the
\* "\n" of the format ran into the end of the file) or only the next read
\* does.
TopEdge ==
    /\ pc = "top_run" /\ clk = 0
    /\ clk' = 1
    /\ top_ticks' = top_ticks + 1
    /\ \E drv_first \in BOOLEAN, mon_first \in BOOLEAN, eof_last \in BOOLEAN :
        LET reads   == dr_st = "DR_IDLE" /\ ~fin_eof
            code    == IF fin = <<>> THEN -1
                       ELSE IF Head(fin).ok THEN 1 ELSE 0
            fin_drv == IF reads /\ code = 1 THEN Tail(fin) ELSE fin
            eof_drv == IF ~reads THEN fin_eof
                       ELSE IF code = -1 THEN TRUE
                       ELSE IF code = 1 /\ Tail(fin) = <<>> THEN eof_last
                       ELSE fin_eof
            eof_seen == IF drv_first THEN eof_drv ELSE fin_eof
            done    == FinishDone(eof_seen, in_valid, recv_cnt, sent_cnt)
            timeout == top_ticks + 1 >= TopTimeoutEdges
            writes  == dut_out_valid /\ out_ready
        IN  IF done \/ timeout
            THEN \* $finish: the nonblocking assignments of this edge never
                 \* take effect; what ran before the guard has read and
                 \* written its file
                 /\ pc' = "top_finished"
                 /\ top_end' = IF done THEN "DONE" ELSE "TIMEOUT"
                 /\ fin' = IF drv_first THEN fin_drv ELSE fin
                 /\ fin_eof' = IF drv_first THEN eof_drv ELSE fin_eof
                 /\ fout' = IF mon_first /\ writes
                            THEN Append(fout, out_data) ELSE fout
                 /\ UNCHANGED << in_valid, in_data, dr_st, sent_cnt, recv_cnt,
                                 dut_out_valid, out_data >>
            ELSE /\ pc' = pc /\ top_end' = top_end
                 /\ fin' = fin_drv /\ fin_eof' = eof_drv
                 /\ IF dr_st = "DR_IDLE"
                    THEN /\ IF reads
                            THEN IF code = 1
                                 THEN /\ in_data' = Trunc16(Head(fin).v)
                                      /\ in_valid' = TRUE
                                      /\ dr_st' = "DR_HAVE"
                                 ELSE UNCHANGED << in_data, in_valid, dr_st >>
                            ELSE /\ in_valid' = FALSE
                                 /\ UNCHANGED << in_data, dr_st >>
                         /\ sent_cnt' = sent_cnt
                    ELSE IF in_valid /\ DutInReady
                         THEN /\ sent_cnt' = sent_cnt + 1
                              /\ in_valid' = FALSE
                              /\ dr_st' = "DR_IDLE"
                              /\ in_data' = in_data
                         ELSE UNCHANGED << in_data, in_valid, dr_st, sent_cnt >>
                 /\ IF writes
                    THEN fout' = Append(fout, out_data) /\ recv_cnt' = recv_cnt + 1
                    ELSE UNCHANGED << fout, recv_cnt >>
                 /\ LET q == DutAfterEdge
                    IN  dut_out_valid' = q.v /\ out_data' = q.d
    /\ UNCHANGED << rst_n, top_rep >>
    /\ TopOnly

NextTop == TopNegedge \/ TopResetEdge \/ TopEdge

SpecTop == InitTop /\ [][NextTop]_vars

\* the samples the driver reads from a file, in order: $fscanf consumes
\* nothing of a line that does not convert, so the driver never gets past it
RECURSIVE TopSamples(_)
TopSamples(f) ==
    IF f = <<>> \/ ~Head(f).ok THEN <<>>
    ELSE << Head(f).v >> \o TopSamples(Tail(f))

\* C37: the finish guard never ends the simulation early.  Whatever the
\* order of driver, monitor and guard at an edge, DONE is taken only when
\* the whole input file has been read, every sample was accepted, in_valid
\* is low and a record was written for every sample: recv_cnt = sent_cnt =
\* number of samples, and the output file holds their squares in order.
\* With an empty input file that was opened DONE is never taken and the run
\* ends through the timeout branch.
\* No more samples are ever sent than the file holds before its first line
\* that does not convert.
C37_FinishGuard ==
    /\ top_end = "DONE" =>
          /\ top_file # <<>> /\ fin = <<>> /\ fin_eof
          /\ ~in_valid /\ dr_st = "DR_IDLE"
          /\ sent_cnt = Len(TopSamples(top_file)) /\ recv_cnt = sent_cnt
          /\ fout = [k \in 1 .. Len(TopSamples(top_file)) |->
                         TopSamples(top_file)[k] * TopSamples(top_file)[k]]
          /\ ~dut_out_valid
    /\ (top_file = <<>> /\ pc = "top_finished") => top_end \in {"TIMEOUT", "ERROR"}
    /\ (top_file = <<>> /\ pc = "top_run") => (top_end = "none" /\ sent_cnt = 0)
    /\ sent_cnt <= Len(TopSamples(top_file))

\* DONE after a file of the most samples, not all equal
C37_Witness ==
    /\ pc = "top_finished" /\ top_end = "DONE"
    /\ Len(top_file) = TopMaxLines /\ sent_cnt = TopMaxLines
    /\ top_file[1].v # top_file[TopMaxLines].v
    /\ Len(fout) = TopMaxLines

----------------------------------------------------------------------------
(* SpecSq: the edge of tb_top at which the naive dut accepts a sample, for
   any sample of the signed DATAW-bit range *)

SqRange == (0 - Pow2(DATAW - 1)) .. (Pow2(DATAW - 1) - 1)

\* tb_top one edge after the driver has read x, the only sample of the
\* input file: in_valid is high with in_data = x, the driver is in DR_HAVE
InitSq ==
    /\ clk = 0 /\ rst_n = TRUE
    /\ in_valid = TRUE /\ in_a = 0 /\ in_b = 0 /\ out_ready = TRUE
    /\ out_buf_valid = FALSE /\ out_buf_data = 0
    /\ spill_buf_valid = FALSE /\ spill_buf_data = 0
    /\ pc = "top_run"
    /\ TbIdle /\ LogIdle /\ HostIdle /\ SvIdle
    /\ top_file \in { << Num(x) >> : x \in SqRange }
    /\ in_data = top_file[1].v /\ dut_out_valid = FALSE /\ out_data = 0
    /\ dr_st = "DR_HAVE" /\ sent_cnt = 0 /\ recv_cnt = 0
    /\ fin = <<>> /\ fin_eof = TRUE /\ fout = <<>>
    /\ top_rep = TopResetEdges /\ top_ticks = 1 /\ top_end = "none"

\* the rising edge at which the sample is accepted
NextSq == TopEdge

SpecSq == InitSq /\ [][NextSq]_vars

\* C38: squaring widens without wraparound.  For every sample x of the
\* signed 16-bit range, out_data after dut accepted x is x * x exactly; for
\* the samples the naive host sends it is the host's golden value
\* gld = in * in.
C38_SquareExact ==
    LET x == top_file[1].v
    IN  /\ in_data = x
        /\ sent_cnt = 1 => (dut_out_valid /\ out_data = x * x)
        /\ dut_out_valid => out_data = in_data * in_data
        /\ \A k \in 1 .. HostN :
               (x = NaiveIn[k] /\ dut_out_valid) => out_data = NaiveGld[k]

\* the most negative sample was accepted: its square 2^30 is shown
C38_Witness ==
    /\ pc = "top_run" /\ clk = 1 /\ sent_cnt = 1 /\ ~in_valid
    /\ in_data = 0 - Pow2(DATAW - 1)
    /\ dut_out_valid /\ out_data = Pow2(2 * DATAW - 2)

====
